---- MODULE Spec2Model ----
(***************************************************************************)
(* A model of Sasl::Client::Scram (src/src/Client/Scram.cpp).              *)
(*                                                                         *)
(* Strings and byte vectors are sequences of octets (0..255); a character  *)
(* is its ASCII code, so that the conversions between text and bytes       *)
(* (Base64, the HMAC paddings, the XOR of the proof) are computed and not  *)
(* assumed.                                                                *)
(***************************************************************************)
EXTENDS Integers, Sequences, FiniteSets, TLC

----------------------------------------------------------------------------
(* Bounds of the model (inputs the environment may supply).                *)

\* Iteration counts 0..MaxIter appear in the i= attribute of server messages.
MaxIter == 2

\* The random source has NumRandom possible 24-byte outputs.
NumRandom == 2

\* Proceed calls counted on a Plain or Login instance.
MaxCalls == 4

----------------------------------------------------------------------------
(* Program constants.                                                      *)

NONCE_LENGTH == 24

\* Mutant of PRINTABLES: every printable character but the space, the
\* comma among them.
PRINTABLES_WithComma == [k \in 1..94 |-> 32 + k]

\* The dictionary of characters that are allowed in nonce values.
PRINTABLES ==
    <<33, 34, 35, 36, 37, 38, 39, 40, 41, 42, 43, 45, 46, 47,
      48, 49, 50, 51, 52, 53, 54, 55, 56, 57,
      58, 59, 60, 61, 62, 63, 64,
      65, 66, 67, 68, 69, 70, 71, 72, 73, 74, 75, 76, 77,
      78, 79, 80, 81, 82, 83, 84, 85, 86, 87, 88, 89, 90,
      91, 92, 93, 94, 95, 96,
      97, 98, 99, 100, 101, 102, 103, 104, 105, 106, 107, 108, 109,
      110, 111, 112, 113, 114, 115, 116, 117, 118, 119, 120, 121, 122,
      123, 124, 125, 126>>

\* ',' : the delimiter of Split and of the message grammar.
Comma == 44

\* '=' : expected at index 1 of every piece.
EqualsSign == 61

\* 'r', 's', 'i' : the attribute keys the switch recognizes.
KeyR == 114

KeyS == 115

KeyI == 105

\* enum class Step
StepClientNonce == "ClientNonce"

StepServerChallenge == "ServerChallenge"

StepServerSignature == "ServerSignature"

StepDone == "Done"

----------------------------------------------------------------------------
(* Generic helpers on octet sequences.                                     *)

\* std::string::substr(pos) with a 0-based pos <= length.
SubstrFrom(s, pos) == SubSeq(s, pos + 1, Len(s))

\* std::string::substr(0, n): at most n characters from the start.
SubstrTo(s, n) == SubSeq(s, 1, IF n < Len(s) THEN n ELSE Len(s))

RECURSIVE BitXor(_, _)
\* The ^ operator on uint8_t values.
BitXor(a, b) ==
    IF a = 0 THEN b
    ELSE IF b = 0 THEN a
    ELSE (((a % 2) + (b % 2)) % 2) + 2 * BitXor(a \div 2, b \div 2)

\* The first position (1-based) of character d in s, or 0
\* (std::string::find_first_of, npos as 0).
FindFirstOf(s, d) ==
    IF \E k \in 1..Len(s) : s[k] = d
    THEN CHOOSE k \in 1..Len(s) : s[k] = d /\ \A j \in 1..(k - 1) : s[j] # d
    ELSE 0

RECURSIVE Split(_, _)
\* StringExtensions::Split: the substrings of s separated by d, empty
\* pieces preserved.
Split(s, d) ==
    LET k == FindFirstOf(s, d)
    IN  IF k = 0 THEN <<s>>
        ELSE <<SubSeq(s, 1, k - 1)>> \o Split(SubSeq(s, k + 1, Len(s)), d)

----------------------------------------------------------------------------
(* Base64 (RFC 4648, standard alphabet, with padding).                     *)

Base64Alphabet ==
    <<65, 66, 67, 68, 69, 70, 71, 72, 73, 74, 75, 76, 77, 78, 79, 80, 81,
      82, 83, 84, 85, 86, 87, 88, 89, 90,
      97, 98, 99, 100, 101, 102, 103, 104, 105, 106, 107, 108, 109, 110,
      111, 112, 113, 114, 115, 116, 117, 118, 119, 120, 121, 122,
      48, 49, 50, 51, 52, 53, 54, 55, 56, 57, 43, 47>>

RECURSIVE Base64Encode(_)
Base64Encode(v) ==
    IF Len(v) = 0 THEN <<>>
    ELSE IF Len(v) = 1 THEN
        <<Base64Alphabet[(v[1] \div 4) + 1],
          Base64Alphabet[((v[1] % 4) * 16) + 1],
          EqualsSign, EqualsSign>>
    ELSE IF Len(v) = 2 THEN
        <<Base64Alphabet[(v[1] \div 4) + 1],
          Base64Alphabet[((v[1] % 4) * 16 + (v[2] \div 16)) + 1],
          Base64Alphabet[((v[2] % 16) * 4) + 1],
          EqualsSign>>
    ELSE
        <<Base64Alphabet[(v[1] \div 4) + 1],
          Base64Alphabet[((v[1] % 4) * 16 + (v[2] \div 16)) + 1],
          Base64Alphabet[((v[2] % 16) * 4 + (v[3] \div 64)) + 1],
          Base64Alphabet[(v[3] % 64) + 1]>>
        \o Base64Encode(SubSeq(v, 4, Len(v)))

\* The 6-bit value of an alphabet character, or -1.
Base64Value(c) ==
    IF \E k \in 1..64 : Base64Alphabet[k] = c
    THEN (CHOOSE k \in 1..64 : Base64Alphabet[k] = c) - 1
    ELSE -1

RECURSIVE Base64Sextets(_)
\* The sextets of the leading run of alphabet characters of s.
Base64Sextets(s) ==
    IF Len(s) = 0 \/ Base64Value(s[1]) < 0 THEN <<>>
    ELSE <<Base64Value(s[1])>> \o Base64Sextets(Tail(s))

RECURSIVE Base64Octets(_)
Base64Octets(x) ==
    IF Len(x) < 2 THEN <<>>
    ELSE IF Len(x) = 2 THEN <<x[1] * 4 + (x[2] \div 16)>>
    ELSE IF Len(x) = 3 THEN
        <<x[1] * 4 + (x[2] \div 16), (x[2] % 16) * 16 + (x[3] \div 4)>>
    ELSE
        <<x[1] * 4 + (x[2] \div 16),
          (x[2] % 16) * 16 + (x[3] \div 4),
          (x[3] % 4) * 64 + x[4]>>
        \o Base64Octets(SubSeq(x, 5, Len(x)))

\* Decoding stops at the padding (or at any other character outside the
\* alphabet).
Base64Decode(s) == Base64Octets(Base64Sextets(s))

----------------------------------------------------------------------------
(* The hash functions a caller may register, and the primitives built on   *)
(* them (Hash::MakeHmacBytesToBytesFunction, Hash::Pbkdf2).                *)

\* std::function<> holding no target.
NoFunction == [h |-> 0, blockSize |-> 0]

RECURSIVE PowMod(_, _)
\* m^e modulo 256.
PowMod(m, e) ==
    IF e = 0 THEN 1
    ELSE LET half == PowMod(m, e \div 2)
         IN  IF e % 2 = 0 THEN (half * half) % 256
             ELSE (((half * half) % 256) * m) % 256

RECURSIVE HashMix(_, _, _, _)
\* The sum of (v[k] + 1) * m^(hi - k) over k in lo..hi, modulo 256.
HashMix(v, lo, hi, m) ==
    IF lo > hi THEN 0
    ELSE IF lo = hi THEN (v[lo] + 1) % 256
    ELSE LET mid == (lo + hi) \div 2
         IN  (HashMix(v, lo, mid, m) * PowMod(m, hi - mid)
              + HashMix(v, mid + 1, hi, m)) % 256

\* Hash function number h: a digest of h octets that depends on every
\* octet of the input, on their order and on the length.
ToyHash(h, v) ==
    [j \in 1..h |->
        (HashMix(v, 1, Len(v), 29 + 2 * j)
         + (Len(v) + 7 * j) * PowMod(29 + 2 * j, Len(v))) % 256]

\* The block size (bytes) and digest size (bits) of hash function h.
ToyBlockSize(h) == 4

ToyDigestSize(h) == 8 * h

\* What a caller passes to SetHashFunction: the hash function with a digest
\* of two octets.
HashInputs ==
    {[hashFunction |-> h, blockSize |-> ToyBlockSize(h),
      digestSize |-> ToyDigestSize(h)] : h \in {2}}

\* key', the key pre-hashed when longer than a block, then zero-padded.
HmacKey(f, key) ==
    LET k == IF Len(key) > f.blockSize THEN ToyHash(f.h, key) ELSE key
    IN  [j \in 1..f.blockSize |-> IF j <= Len(k) THEN k[j] ELSE 0]

\* HMAC(key, msg) = H((key' xor opad) || H((key' xor ipad) || msg)).
Hmac(f, key, msg) ==
    LET kp == HmacKey(f, key)
        ipad == [j \in 1..f.blockSize |-> BitXor(kp[j], 54)]
        opad == [j \in 1..f.blockSize |-> BitXor(kp[j], 92)]
    IN  ToyHash(f.h, opad \o ToyHash(f.h, ipad \o msg))

\* The octet-wise XOR of two vectors of the same length.
XorBytes(a, b) == [j \in 1..Len(a) |-> BitXor(a[j], b[j])]

RECURSIVE Pbkdf2F(_, _, _, _, _)
\* U_1 xor ... xor U_c of RFC 2898, given U_j and the XOR so far.
Pbkdf2F(f, password, u, t, j) ==
    IF j <= 1 THEN t
    ELSE LET next == Hmac(f, password, u)
         IN  Pbkdf2F(f, password, next, XorBytes(t, next), j - 1)

RECURSIVE Pbkdf2Blocks(_, _, _, _, _, _)
Pbkdf2Blocks(f, password, salt, c, i, n) ==
    IF i > n THEN <<>>
    ELSE LET u1 == Hmac(f, password, salt \o <<0, 0, 0, i>>)
         IN  Pbkdf2F(f, password, u1, u1, c)
             \o Pbkdf2Blocks(f, password, salt, c, i + 1, n)

\* Hash::Pbkdf2(prf, hLen (bits), password, salt, c, dkLen (bytes)).
Pbkdf2(f, hLenBits, password, salt, c, dkLen) ==
    LET hLen == hLenBits \div 8
        n == (dkLen + hLen - 1) \div hLen
    IN  SubSeq(Pbkdf2Blocks(f, password, salt, c, 1, n), 1, dkLen)

----------------------------------------------------------------------------
(* sscanf(value, "%zu", &numIterations)                                    *)

IsDigit(c) == c >= 48 /\ c <= 57

IsSpace(c) == c = 32 \/ (c >= 9 /\ c <= 13)

RECURSIVE SkipSpace(_, _)
SkipSpace(s, k) ==
    IF k <= Len(s) /\ IsSpace(s[k]) THEN SkipSpace(s, k + 1) ELSE k

RECURSIVE ScanDigits(_, _, _)
\* The value of the run of digits of s that starts at k, given the value so
\* far.
ScanDigits(s, k, acc) ==
    IF k <= Len(s) /\ IsDigit(s[k])
    THEN ScanDigits(s, k + 1, acc * 10 + (s[k] - 48))
    ELSE acc

\* The result of the conversion: count is sscanf's return value (1 when a
\* number was converted; 0 stands for every other result), value what was
\* stored.  The conversion skips white space, takes an optional sign and
\* then the longest run of digits; what follows the digits is left unread.
\* A '-' negates the magnitude in the unsigned type: only a magnitude of 0
\* is within the numbers of this model.
ScanSizeT(s) ==
    LET a == SkipSpace(s, 1)
        signed == a <= Len(s) /\ (s[a] = 43 \/ s[a] = 45)
        b == IF signed THEN a + 1 ELSE a
    IN  IF b <= Len(s) /\ IsDigit(s[b])
        THEN [count |-> 1,
              value |-> IF signed /\ s[a] = 45
                        THEN 0 - ScanDigits(s, b, 0)
                        ELSE ScanDigits(s, b, 0)]
        ELSE [count |-> 0, value |-> 0]

----------------------------------------------------------------------------
(* Nonce generation.                                                       *)

\* The k-th output of the random source: NONCE_LENGTH octets.
RandomOutput(k) == [i \in 1..NONCE_LENGTH |-> (k * 97 + i * 23) % 256]

RandomOutputs == {RandomOutput(k) : k \in 1..NumRandom}

\* Mutant of MakeNonce: the index is the octet modulo 90.
MakeNonce_ModuloNinety(randomBytes) ==
    [k \in 1..Len(randomBytes) |-> PRINTABLES[(randomBytes[k] % 90) + 1]]

MakeNonce(randomBytes) ==
    [k \in 1..Len(randomBytes) |->
        PRINTABLES[(randomBytes[k] % Len(PRINTABLES)) + 1]]

----------------------------------------------------------------------------
(* Plain (Plain.cpp) and Login (Login.cpp).  The private properties of an  *)
(* instance are a record; an operation maps them to the properties after   *)
(* the call, the string returned and the diagnostic messages published.    *)

\* What a call leaves and gives back.
Result(impl, r, d) == [impl |-> impl, ret |-> r, diag |-> d]

\* "*******"
Redacted == <<42, 42, 42, 42, 42, 42, 42>>

\* Plain::Plain(): the member initializers of Plain::Impl.
PlainConstructed ==
    [encodedCredentialsToSend |-> <<>>,
     encodedCredentialsToPublishToDiagnostics |-> <<>>,
     credentialsSent |-> FALSE]

\* Mutant of PlainSetCredentials: the record begins with the
\* authentication identity.
PlainSetCredentials_AuthnFirst(impl, credentials, authenticationIdentity, authorizationIdentity) ==
    Result([impl EXCEPT
                !.encodedCredentialsToSend =
                    authenticationIdentity \o <<0>> \o authorizationIdentity
                    \o <<0>> \o credentials,
                !.encodedCredentialsToPublishToDiagnostics =
                    authenticationIdentity \o <<92, 48>>
                    \o authorizationIdentity \o <<92, 48>> \o Redacted],
           <<>>, <<>>)

\* Mutant of PlainSetCredentials: new credentials are yet to be sent.
PlainSetCredentials_ClearsSent(impl, credentials, authenticationIdentity, authorizationIdentity) ==
    Result([impl EXCEPT
                !.encodedCredentialsToSend =
                    authorizationIdentity \o <<0>> \o authenticationIdentity
                    \o <<0>> \o credentials,
                !.encodedCredentialsToPublishToDiagnostics =
                    authorizationIdentity \o <<92, 48>>
                    \o authenticationIdentity \o <<92, 48>> \o Redacted,
                !.credentialsSent = FALSE],
           <<>>, <<>>)

\* The two builders: '\0' is one NUL octet, "\\0" a backslash and a zero.
PlainSetCredentials(impl, credentials, authenticationIdentity, authorizationIdentity) ==
    Result([impl EXCEPT
                !.encodedCredentialsToSend =
                    authorizationIdentity \o <<0>> \o authenticationIdentity
                    \o <<0>> \o credentials,
                !.encodedCredentialsToPublishToDiagnostics =
                    authorizationIdentity \o <<92, 48>>
                    \o authenticationIdentity \o <<92, 48>> \o Redacted],
           <<>>, <<>>)

\* Mutant of PlainGetInitialResponse: giving the initial response counts
\* as sending the credentials.
PlainGetInitialResponse_MarksSent(impl) ==
    Result([impl EXCEPT !.credentialsSent = TRUE],
           impl.encodedCredentialsToSend,
           << <<67, 58, 32, 65, 85, 84, 72, 32, 80, 76, 65, 73, 78, 32>>
              \o impl.encodedCredentialsToPublishToDiagnostics >>)

\* "C: AUTH PLAIN " + encodedCredentialsToPublishToDiagnostics
PlainGetInitialResponse(impl) ==
    Result(impl, impl.encodedCredentialsToSend,
           << <<67, 58, 32, 65, 85, 84, 72, 32, 80, 76, 65, 73, 78, 32>>
              \o impl.encodedCredentialsToPublishToDiagnostics >>)

\* Mutant of PlainProceed: the credentials are sent on every call.
PlainProceed_SendsAgain(impl, message) ==
    Result([impl EXCEPT !.credentialsSent = TRUE],
           impl.encodedCredentialsToSend, <<>>)

PlainProceed(impl, message) ==
    IF impl.credentialsSent
    THEN Result(impl, <<>>, <<>>)
    ELSE Result([impl EXCEPT !.credentialsSent = TRUE],
                impl.encodedCredentialsToSend, <<>>)

\* Mutant of PlainSucceeded: success is reported once the credentials
\* were sent.
PlainSucceeded_WhenSent(impl) == impl.credentialsSent

\* Plain::Succeeded: return false
PlainSucceeded(impl) == FALSE

\* Plain::Faulted: return false
PlainFaulted(impl) == FALSE

\* Login::Login(): the member initializers of Login::Impl.
LoginConstructed ==
    [username |-> <<>>, password |-> <<>>, numChallenges |-> 0]

\* Mutant of LoginSetCredentials: an authorization identity, when given,
\* is taken for the user name.
LoginSetCredentials_ActsAs(impl, credentials, authenticationIdentity, authorizationIdentity) ==
    Result([impl EXCEPT !.username = IF authorizationIdentity = <<>>
                                     THEN authenticationIdentity
                                     ELSE authorizationIdentity,
                        !.password = credentials],
           <<>>, <<>>)

\* Mutant of LoginSetCredentials: new credentials restart the sequence.
LoginSetCredentials_Restarts(impl, credentials, authenticationIdentity, authorizationIdentity) ==
    Result([impl EXCEPT !.username = authenticationIdentity,
                        !.password = credentials,
                        !.numChallenges = 0],
           <<>>, <<>>)

LoginSetCredentials(impl, credentials, authenticationIdentity, authorizationIdentity) ==
    Result([impl EXCEPT !.username = authenticationIdentity,
                        !.password = credentials],
           <<>>, <<>>)

\* "C: AUTH LOGIN"
LoginGetInitialResponse(impl) ==
    Result(impl, <<>>,
           << <<67, 58, 32, 65, 85, 84, 72, 32, 76, 79, 71, 73, 78>> >>)

\* Mutant of LoginProceed: the counter is compared before it is
\* incremented.
LoginProceed_CountsLate(impl, message) ==
    LET after == [impl EXCEPT !.numChallenges = impl.numChallenges + 1]
    IN  CASE impl.numChallenges = 1 ->
                Result(after, impl.username, << <<67, 58, 32>> \o impl.username >>)
          [] impl.numChallenges = 2 ->
                Result(after, impl.password, << <<67, 58, 32>> \o Redacted >>)
          [] OTHER -> Result(after, <<>>, <<>>)

\* switch (++numChallenges)
LoginProceed(impl, message) ==
    LET after == [impl EXCEPT !.numChallenges = impl.numChallenges + 1]
    IN  CASE after.numChallenges = 1 ->
                Result(after, impl.username, << <<67, 58, 32>> \o impl.username >>)
          [] after.numChallenges = 2 ->
                Result(after, impl.password, << <<67, 58, 32>> \o Redacted >>)
          [] OTHER -> Result(after, <<>>, <<>>)

\* Login::Succeeded: return false
LoginSucceeded(impl) == FALSE

\* Login::Faulted: return false
LoginFaulted(impl) == FALSE

\* Login::Reset, declared in Login.hpp; its definition is not in Login.cpp
\* as it stands: it zeroes the counter.
LoginReset(impl) == Result([impl EXCEPT !.numChallenges = 0], <<>>, <<>>)

----------------------------------------------------------------------------
(* The state: one Scram instance (struct Scram::Impl), one Plain and one    *)
(* Login instance, and what the caller of the instance in use observes.    *)

VARIABLES
    mechanism,                  \* the class of the instance in use
    plain,                      \* Plain::Impl
    login,                      \* Login::Impl
    calls,                      \* Proceed calls made on the Plain or Login
    twin,                       \* a second run, given another secret
    step,                       \* Impl::step
    hashFunction,               \* Impl::hashFunction (0: no target)
    digestSize,                 \* Impl::digestSize
    hmac,                       \* Impl::hmac
    username,                   \* Impl::username
    normalizedPassword,         \* Impl::normalizedPassword
    encodedChannelBinding,      \* Impl::encodedChannelBinding
    clientNonce,                \* Impl::clientNonce
    clientFirstMessage,         \* Impl::clientFirstMessage
    clientFirstMessageBare,     \* Impl::clientFirstMessageBare
    serverSignature,            \* Impl::serverSignature
    succeeded,                  \* Impl::succeeded
    faulted,                    \* Impl::faulted
    ret,                        \* what the last call returned
    threw,                      \* whether the last call ended by an exception
    diag,                       \* what the last call published (level 0)
    lastOp,                     \* the last call
    lastMsg,                    \* the server message it examined, if any
    pre,                        \* step, succeeded, faulted before the call
    lastCredentials,            \* arguments of the latest SetCredentials
    observed,                   \* whether everFaulted is kept (SpecLatch)
    everFaulted                 \* whether Faulted() has ever been true

implVars ==
    <<step, hashFunction, digestSize, hmac, username, normalizedPassword,
      encodedChannelBinding, clientNonce, clientFirstMessage,
      clientFirstMessageBare, serverSignature, succeeded, faulted>>

vars ==
    <<mechanism, plain, login, calls, twin, step, hashFunction, digestSize, hmac, username, normalizedPassword,
      encodedChannelBinding, clientNonce, clientFirstMessage,
      clientFirstMessageBare, serverSignature, succeeded, faulted,
      ret, threw, diag, lastOp, lastMsg, pre, lastCredentials, observed,
      everFaulted>>

\* No SetCredentials call yet.  randomBytes is what the random source gave
\* the call (nothing, for a Plain or a Login).
NoCredentials ==
    [set |-> FALSE, credentials |-> <<>>, authenticationIdentity |-> <<>>,
     authorizationIdentity |-> <<>>, randomBytes |-> <<>>]

\* No Proceed call yet: made counts the calls since the construction or
\* the latest Reset, turn those since the latest SetCredentials as well
\* (both stop at MaxCalls); before is what made was before the last call.
\* The calls are counted on a Plain, on a Login and in one exchange of a
\* Scram.
NoCalls == [made |-> 0, turn |-> 0, before |-> 0]

\* No second run.  Of a second run are kept: its instance (impl), what its
\* last call returned and published, its secret, and how far it is (phase):
\* "even" when both runs have had the same calls, "ahead" when the
\* instance in use has had one call more (pending), "behind" when one less.
NoTwin == [impl |-> <<>>, ret |-> <<>>, diag |-> <<>>, credentials |-> <<>>,
           pending |-> <<>>, phase |-> "even"]

\* Scram::Scram(), Plain::Plain(), Login::Login(): the member initializers
\* of the three Impl.  digestSize has none:
\* the 0 stands for its indeterminate value, which enters no result, as a
\* Proceed that reads it before SetHashFunction ends abnormally (hmac holds
\* no target).
Constructed ==
    /\ step = StepClientNonce
    /\ hashFunction = 0
    /\ digestSize = 0
    /\ hmac = NoFunction
    /\ username = <<>>
    /\ normalizedPassword = <<>>
    /\ encodedChannelBinding = <<>>
    /\ clientNonce = <<>>
    /\ clientFirstMessage = <<>>
    /\ clientFirstMessageBare = <<>>
    /\ serverSignature = <<>>
    /\ succeeded = FALSE
    /\ faulted = FALSE
    /\ ret = <<>>
    /\ threw = FALSE
    /\ diag = <<>>
    /\ lastOp = mechanism
    /\ lastMsg = <<>>
    /\ pre = [step |-> StepClientNonce, succeeded |-> FALSE, faulted |-> FALSE]
    /\ lastCredentials = NoCredentials
    /\ everFaulted = FALSE
    /\ plain = PlainConstructed
    /\ login = LoginConstructed
    /\ calls = NoCalls

\* A Scram instance in use, in a single run.
Init ==
    /\ mechanism = "Scram"
    /\ Constructed
    /\ observed = FALSE
    /\ twin = NoTwin

\* The same instance, with the history of Faulted() kept.
InitLatch ==
    /\ mechanism = "Scram"
    /\ Constructed
    /\ observed = TRUE
    /\ twin = NoTwin

\* Bookkeeping common to every call, the count of the calls becoming n.
CalledCounted(op, message, n) ==
    /\ lastOp' = op
    /\ lastMsg' = message
    /\ pre' = [step |-> step, succeeded |-> succeeded, faulted |-> faulted]
    /\ observed' = observed
    /\ everFaulted' = (observed /\ (everFaulted \/ faulted'))
    /\ calls' = n
    /\ UNCHANGED <<mechanism, plain, login>>

\* The same, of a call that is not counted.
Called(op, message) == CalledCounted(op, message, calls)

\* A call that returns the string r, having published the messages d.
Returns(r, d) ==
    /\ ret' = r
    /\ threw' = FALSE
    /\ diag' = d

----------------------------------------------------------------------------
(* Operations.                                                             *)

SetHashFunction(hf, blockSize, dSize) ==
    /\ hashFunction' = hf
    /\ hmac' = [h |-> hf, blockSize |-> blockSize]
    /\ digestSize' = dSize
    /\ Returns(<<>>, <<>>)
    /\ UNCHANGED <<step, username, normalizedPassword, encodedChannelBinding,
                   clientNonce, clientFirstMessage, clientFirstMessageBare,
                   serverSignature, succeeded, faulted>>

\* Mutant of Reset: it also rewinds the step.
Reset_Rewinds ==
    /\ succeeded' = FALSE
    /\ faulted' = FALSE
    /\ step' = StepClientNonce
    /\ Returns(<<>>, <<>>)
    /\ UNCHANGED <<hashFunction, digestSize, hmac, username,
                   normalizedPassword, encodedChannelBinding, clientNonce,
                   clientFirstMessage, clientFirstMessageBare,
                   serverSignature>>

Reset ==
    /\ succeeded' = FALSE
    /\ faulted' = FALSE
    /\ Returns(<<>>, <<>>)
    /\ UNCHANGED <<step, hashFunction, digestSize, hmac, username,
                   normalizedPassword, encodedChannelBinding, clientNonce,
                   clientFirstMessage, clientFirstMessageBare,
                   serverSignature>>

\* Normalize: the input, unchanged.
Normalize(input) == input

\* Mutant of Gs2Header: no authorization identity is named.
Gs2Header_NoAuthz(authorizationIdentity) == <<110, Comma, Comma>>

\* "n," + authorizationIdentity + ","
Gs2Header(authorizationIdentity) ==
    <<110, Comma>> \o authorizationIdentity \o <<Comma>>

\* "n=" + authenticationIdentity + ",r=" + nonce
FirstMessageBare(authenticationIdentity, nonce) ==
    <<110, EqualsSign>> \o authenticationIdentity
    \o <<Comma, KeyR, EqualsSign>> \o nonce

\* Mutant of SetCredentials: new credentials begin a new exchange.
SetCredentials_BeginsAgain(credentials, authenticationIdentity, authorizationIdentity, randomBytes) ==
    LET nonce == MakeNonce(randomBytes)
        bare == FirstMessageBare(authenticationIdentity, nonce)
        gs2Header == Gs2Header(authorizationIdentity)
    IN  /\ username' = authenticationIdentity
        /\ normalizedPassword' = Normalize(credentials)
        /\ clientNonce' = nonce
        /\ clientFirstMessageBare' = bare
        /\ clientFirstMessage' = gs2Header \o bare
        /\ encodedChannelBinding' = Base64Encode(gs2Header)
        /\ step' = StepClientNonce
        /\ Returns(<<>>, <<>>)
        /\ UNCHANGED <<hashFunction, digestSize, hmac, serverSignature,
                       succeeded, faulted>>

\* randomBytes: what rng.Generate put into the buffer of MakeNonce.
SetCredentials(credentials, authenticationIdentity, authorizationIdentity, randomBytes) ==
    LET nonce == MakeNonce(randomBytes)
        bare == FirstMessageBare(authenticationIdentity, nonce)
        gs2Header == Gs2Header(authorizationIdentity)
    IN  /\ username' = authenticationIdentity
        /\ normalizedPassword' = Normalize(credentials)
        /\ clientNonce' = nonce
        /\ clientFirstMessageBare' = bare
        /\ clientFirstMessage' = gs2Header \o bare
        /\ encodedChannelBinding' = Base64Encode(gs2Header)
        /\ Returns(<<>>, <<>>)
        /\ UNCHANGED <<step, hashFunction, digestSize, hmac, serverSignature,
                       succeeded, faulted>>

\* "C: AUTH SCRAM* " + clientFirstMessage
FirstMessageDiagnostic ==
    <<67, 58, 32, 65, 85, 84, 72, 32, 83, 67, 82, 65, 77, 42, 32>>
    \o clientFirstMessage

\* Mutant of GetInitialResponse: nothing to send once the exchange began.
GetInitialResponse_OnlyAtStart ==
    /\ Returns(IF step = StepClientNonce THEN clientFirstMessage ELSE <<>>,
               <<FirstMessageDiagnostic>>)
    /\ UNCHANGED implVars

GetInitialResponse ==
    /\ Returns(clientFirstMessage, <<FirstMessageDiagnostic>>)
    /\ UNCHANGED implVars

\* The locals of the ServerChallenge case before the loop over the pieces.
ParseStart ==
    [faulted |-> FALSE, numIterations |-> 1, serverNonce |-> <<>>,
     salt |-> <<>>]

\* Mutant of ParsePiece: a piece that is no attribute is passed over.
ParsePiece_SkipsMalformed(piece, acc) ==
    IF Len(piece) < 3 THEN acc
    ELSE IF piece[2] # EqualsSign THEN acc
    ELSE LET value == SubstrFrom(piece, 2)
         IN  CASE piece[1] = KeyR ->
                    IF SubstrTo(value, Len(clientNonce)) # clientNonce
                    THEN [acc EXCEPT !.serverNonce = value, !.faulted = TRUE]
                    ELSE [acc EXCEPT !.serverNonce = value]
               [] piece[1] = KeyS ->
                    [acc EXCEPT !.salt = Base64Decode(value)]
               [] piece[1] = KeyI ->
                    LET scan == ScanSizeT(value)
                    IN  IF scan.count # 1
                        THEN [acc EXCEPT !.faulted = TRUE]
                        ELSE [acc EXCEPT !.numIterations = scan.value]
               [] OTHER -> acc

\* Mutant of ParsePiece: the server nonce is taken as it comes.
ParsePiece_NoNonceCheck(piece, acc) ==
    IF Len(piece) < 3 THEN [acc EXCEPT !.faulted = TRUE]
    ELSE IF piece[2] # EqualsSign THEN [acc EXCEPT !.faulted = TRUE]
    ELSE LET value == SubstrFrom(piece, 2)
         IN  CASE piece[1] = KeyR -> [acc EXCEPT !.serverNonce = value]
               [] piece[1] = KeyS ->
                    [acc EXCEPT !.salt = Base64Decode(value)]
               [] piece[1] = KeyI ->
                    LET scan == ScanSizeT(value)
                    IN  IF scan.count # 1
                        THEN [acc EXCEPT !.faulted = TRUE]
                        ELSE [acc EXCEPT !.numIterations = scan.value]
               [] OTHER -> acc

\* Mutant of ParsePiece: an attribute the client does not know is a
\* protocol violation.
ParsePiece_FaultsOnUnknown(piece, acc) ==
    IF Len(piece) < 3 THEN [acc EXCEPT !.faulted = TRUE]
    ELSE IF piece[2] # EqualsSign THEN [acc EXCEPT !.faulted = TRUE]
    ELSE LET value == SubstrFrom(piece, 2)
         IN  CASE piece[1] = KeyR ->
                    IF SubstrTo(value, Len(clientNonce)) # clientNonce
                    THEN [acc EXCEPT !.serverNonce = value, !.faulted = TRUE]
                    ELSE [acc EXCEPT !.serverNonce = value]
               [] piece[1] = KeyS ->
                    [acc EXCEPT !.salt = Base64Decode(value)]
               [] piece[1] = KeyI ->
                    LET scan == ScanSizeT(value)
                    IN  IF scan.count # 1
                        THEN [acc EXCEPT !.faulted = TRUE]
                        ELSE [acc EXCEPT !.numIterations = scan.value]
               [] OTHER -> [acc EXCEPT !.faulted = TRUE]

\* One pass of the loop body: the locals after the piece, faulted when the
\* body returned early.
ParsePiece(piece, acc) ==
    IF Len(piece) < 3 THEN [acc EXCEPT !.faulted = TRUE]
    ELSE IF piece[2] # EqualsSign THEN [acc EXCEPT !.faulted = TRUE]
    ELSE LET value == SubstrFrom(piece, 2)
         IN  CASE piece[1] = KeyR ->
                    IF SubstrTo(value, Len(clientNonce)) # clientNonce
                    THEN [acc EXCEPT !.serverNonce = value, !.faulted = TRUE]
                    ELSE [acc EXCEPT !.serverNonce = value]
               [] piece[1] = KeyS ->
                    [acc EXCEPT !.salt = Base64Decode(value)]
               [] piece[1] = KeyI ->
                    LET scan == ScanSizeT(value)
                    IN  IF scan.count # 1
                        THEN [acc EXCEPT !.faulted = TRUE]
                        ELSE [acc EXCEPT !.numIterations = scan.value]
               [] OTHER -> acc

RECURSIVE ParsePieces(_, _, _)
\* The loop over the pieces, from piece k on.
ParsePieces(pieces, k, acc) ==
    IF k > Len(pieces) \/ acc.faulted THEN acc
    ELSE ParsePieces(pieces, k + 1, ParsePiece(pieces[k], acc))

\* "c=" + encodedChannelBinding + ",r=" + serverNonce
ClientFinalMessageWithoutProof(serverNonce) ==
    <<99, EqualsSign>> \o encodedChannelBinding
    \o <<Comma, KeyR, EqualsSign>> \o serverNonce

\* Mutant of Derivation: the auth message is built from the whole client
\* first message, GS2 header included.
Derivation_WithGs2Header(message, parsed) ==
    LET saltedPassword ==
            Pbkdf2(hmac, digestSize, normalizedPassword, parsed.salt,
                   parsed.numIterations, digestSize \div 8)
        clientKey ==
            Hmac(hmac, saltedPassword,
                 <<67, 108, 105, 101, 110, 116, 32, 75, 101, 121>>)
        storedKey == ToyHash(hashFunction, clientKey)
        withoutProof == ClientFinalMessageWithoutProof(parsed.serverNonce)
        authMessage ==
            clientFirstMessage \o <<Comma>> \o message \o <<Comma>>
            \o withoutProof
        clientSignature == Hmac(hmac, storedKey, authMessage)
        clientProof ==
            [i \in 1..Len(storedKey) |->
                BitXor(clientKey[i], clientSignature[i])]
        serverKey ==
            Hmac(hmac, saltedPassword,
                 <<83, 101, 114, 118, 101, 114, 32, 75, 101, 121>>)
    IN  [withoutProof |-> withoutProof,
         clientProof |-> clientProof,
         serverSignature |-> Hmac(hmac, serverKey, authMessage)]

\* The values computed after the loop, from the locals the loop left.
Derivation(message, parsed) ==
    LET saltedPassword ==
            Pbkdf2(hmac, digestSize, normalizedPassword, parsed.salt,
                   parsed.numIterations, digestSize \div 8)
        clientKey ==
            Hmac(hmac, saltedPassword,
                 <<67, 108, 105, 101, 110, 116, 32, 75, 101, 121>>)
        storedKey == ToyHash(hashFunction, clientKey)
        withoutProof == ClientFinalMessageWithoutProof(parsed.serverNonce)
        authMessage ==
            clientFirstMessageBare \o <<Comma>> \o message \o <<Comma>>
            \o withoutProof
        clientSignature == Hmac(hmac, storedKey, authMessage)
        clientProof ==
            [i \in 1..Len(storedKey) |->
                BitXor(clientKey[i], clientSignature[i])]
        serverKey ==
            Hmac(hmac, saltedPassword,
                 <<83, 101, 114, 118, 101, 114, 32, 75, 101, 121>>)
    IN  [withoutProof |-> withoutProof,
         clientProof |-> clientProof,
         serverSignature |-> Hmac(hmac, serverKey, authMessage)]

\* Mutant of FinalMessageDiagnostic: the message is published as sent.
FinalMessageDiagnostic_WithProof(withoutProof, clientProof) ==
    <<67, 58, 32>> \o withoutProof \o <<Comma, 112, EqualsSign>>
    \o Base64Encode(clientProof)

\* "C: " + clientFinalMessageWithoutProof + ",p=*******"
FinalMessageDiagnostic(withoutProof, clientProof) ==
    <<67, 58, 32>> \o withoutProof
    \o <<Comma, 112, EqualsSign, 42, 42, 42, 42, 42, 42, 42>>

ProceedClientNonce ==
    /\ step' = StepServerChallenge
    /\ Returns(clientFirstMessage, <<FirstMessageDiagnostic>>)
    /\ UNCHANGED <<hashFunction, digestSize, hmac, username,
                   normalizedPassword, encodedChannelBinding, clientNonce,
                   clientFirstMessage, clientFirstMessageBare,
                   serverSignature, succeeded, faulted>>

\* Mutant of ProceedServerChallenge: the step is assigned before the
\* pieces are looked at.
ProceedServerChallenge_StepsBeforeParsing(message) ==
    LET parsed == ParsePieces(Split(message, Comma), 1, ParseStart)
    IN  IF parsed.faulted
        THEN /\ faulted' = TRUE
             /\ step' = StepServerSignature
             /\ Returns(<<>>, <<>>)
             /\ UNCHANGED <<hashFunction, digestSize, hmac, username,
                            normalizedPassword, encodedChannelBinding,
                            clientNonce, clientFirstMessage,
                            clientFirstMessageBare, serverSignature,
                            succeeded>>
        ELSE /\ step' = StepServerSignature
             /\ UNCHANGED <<hashFunction, digestSize, hmac, username,
                            normalizedPassword, encodedChannelBinding,
                            clientNonce, clientFirstMessage,
                            clientFirstMessageBare, succeeded, faulted>>
             /\ IF hmac = NoFunction
                THEN /\ ret' = <<>>
                     /\ threw' = TRUE
                     /\ diag' = <<>>
                     /\ UNCHANGED serverSignature
                ELSE LET d == Derivation(message, parsed)
                     IN  /\ serverSignature' = d.serverSignature
                         /\ Returns(
                                d.withoutProof \o <<Comma, 112, EqualsSign>>
                                \o Base64Encode(d.clientProof),
                                <<FinalMessageDiagnostic(d.withoutProof,
                                                         d.clientProof)>>)

ProceedServerChallenge(message) ==
    LET parsed == ParsePieces(Split(message, Comma), 1, ParseStart)
    IN  IF parsed.faulted
        THEN /\ faulted' = TRUE
             /\ Returns(<<>>, <<>>)
             /\ UNCHANGED <<step, hashFunction, digestSize, hmac, username,
                            normalizedPassword, encodedChannelBinding,
                            clientNonce, clientFirstMessage,
                            clientFirstMessageBare, serverSignature,
                            succeeded>>
        ELSE /\ step' = StepServerSignature
             /\ UNCHANGED <<hashFunction, digestSize, hmac, username,
                            normalizedPassword, encodedChannelBinding,
                            clientNonce, clientFirstMessage,
                            clientFirstMessageBare, succeeded, faulted>>
             /\ IF hmac = NoFunction
                THEN \* calling the empty std::function: std::bad_function_call
                     /\ ret' = <<>>
                     /\ threw' = TRUE
                     /\ diag' = <<>>
                     /\ UNCHANGED serverSignature
                ELSE LET d == Derivation(message, parsed)
                     IN  /\ serverSignature' = d.serverSignature
                         /\ Returns(
                                d.withoutProof \o <<Comma, 112, EqualsSign>>
                                \o Base64Encode(d.clientProof),
                                <<FinalMessageDiagnostic(d.withoutProof,
                                                         d.clientProof)>>)

\* "v=" + Base64::Encode(serverSignature)
ExpectedMessage == <<118, EqualsSign>> \o Base64Encode(serverSignature)

\* Mutant of ProceedServerSignature: any message that begins with "v=" is
\* taken for the verifier.
ProceedServerSignature_AnyVerifier(message) ==
    /\ step' = StepDone
    /\ succeeded' = (IF SubstrTo(message, 2) = <<118, EqualsSign>>
                     THEN TRUE ELSE succeeded)
    /\ Returns(<<>>, <<>>)
    /\ UNCHANGED <<hashFunction, digestSize, hmac, username,
                   normalizedPassword, encodedChannelBinding, clientNonce,
                   clientFirstMessage, clientFirstMessageBare,
                   serverSignature, faulted>>

\* Mutant of ProceedServerSignature: the step is left only when the
\* verifier matches.
ProceedServerSignature_WaitsForMatch(message) ==
    /\ step' = (IF message = ExpectedMessage THEN StepDone ELSE step)
    /\ succeeded' = (IF message = ExpectedMessage THEN TRUE ELSE succeeded)
    /\ Returns(<<>>, <<>>)
    /\ UNCHANGED <<hashFunction, digestSize, hmac, username,
                   normalizedPassword, encodedChannelBinding, clientNonce,
                   clientFirstMessage, clientFirstMessageBare,
                   serverSignature, faulted>>

\* Mutant of ProceedServerSignature: the step is not assigned.
ProceedServerSignature_KeepsStep(message) ==
    /\ succeeded' = (IF message = ExpectedMessage THEN TRUE ELSE succeeded)
    /\ Returns(<<>>, <<>>)
    /\ UNCHANGED <<step, hashFunction, digestSize, hmac, username,
                   normalizedPassword, encodedChannelBinding, clientNonce,
                   clientFirstMessage, clientFirstMessageBare,
                   serverSignature, faulted>>

ProceedServerSignature(message) ==
    /\ step' = StepDone
    /\ succeeded' = (IF message = ExpectedMessage THEN TRUE ELSE succeeded)
    /\ Returns(<<>>, <<>>)
    /\ UNCHANGED <<hashFunction, digestSize, hmac, username,
                   normalizedPassword, encodedChannelBinding, clientNonce,
                   clientFirstMessage, clientFirstMessageBare,
                   serverSignature, faulted>>

\* The cases of Proceed that return "" and change nothing: the faulted
\* guard and the default case of the switch.
ProceedNothing ==
    /\ Returns(<<>>, <<>>)
    /\ UNCHANGED implVars

\* Mutant of ProceedSwitch: after the last step the exchange starts over.
ProceedSwitch_StartsOver(message) ==
    CASE step = StepClientNonce -> ProceedClientNonce
      [] step = StepServerChallenge -> ProceedServerChallenge(message)
      [] step = StepServerSignature -> ProceedServerSignature(message)
      [] OTHER -> ProceedClientNonce

\* switch (impl_->step)
ProceedSwitch(message) ==
    CASE step = StepClientNonce -> ProceedClientNonce
      [] step = StepServerChallenge -> ProceedServerChallenge(message)
      [] step = StepServerSignature -> ProceedServerSignature(message)
      [] OTHER -> ProceedNothing

\* Mutant of Proceed: the faulted flag is not looked at.
Proceed_NoFaultedGuard(message) == ProceedSwitch(message)

\* Mutant of Proceed: the guard looks at the succeeded flag.
Proceed_GuardsOnSucceeded(message) ==
    IF succeeded THEN ProceedNothing ELSE ProceedSwitch(message)

Proceed(message) ==
    IF faulted THEN ProceedNothing ELSE ProceedSwitch(message)

----------------------------------------------------------------------------
(* The environment: the caller's arguments and the server's messages.      *)

\* "hunter2", "poggers"
Secrets ==
    {<<104, 117, 110, 116, 101, 114, 50>>,
     <<112, 111, 103, 103, 101, 114, 115>>}

\* "bob"
AuthenticationIdentities == {<<98, 111, 98>>}

\* "", "alex"
AuthorizationIdentities == {<<>>, <<97, 108, 101, 120>>}

RECURSIVE Decimal(_)
\* The decimal numeral of n (printf "%zu").
Decimal(n) ==
    IF n < 10 THEN <<48 + n>>
    ELSE Decimal(n \div 10) \o <<48 + (n % 10)>>

\* Base64::Encode("PJSalt")
EncodedSalt == Base64Encode(<<80, 74, 83, 97, 108, 116>>)

\* "r=" + serverNonce + ",s=" + salt + ",i=" + count
ServerFirstMessage(serverNonce, encodedSalt, count) ==
    <<KeyR, EqualsSign>> \o serverNonce
    \o <<Comma, KeyS, EqualsSign>> \o encodedSalt
    \o <<Comma, KeyI, EqualsSign>> \o count

\* The client nonce with "Poggers" added at the end by the server.
ExtendedNonce == clientNonce \o <<80, 111, 103, 103, 101, 114, 115>>

\* Nonces that do not begin with a (non-empty) client nonce: "Poggers"
\* put in front, and the client nonce without its last character.
ForeignNonces ==
    {<<80, 111, 103, 103, 101, 114, 115>> \o clientNonce,
     <<80>> \o SubstrTo(clientNonce, Len(clientNonce) - 1)}

\* Server first messages whose attributes are all acceptable to the loop.
AcceptableChallenges ==
    {ServerFirstMessage(ExtendedNonce, EncodedSalt, Decimal(n)) :
        n \in 0..MaxIter}
    \cup
    {ServerFirstMessage(clientNonce, EncodedSalt, <<49>>),
     \* no r= attribute
     <<KeyS, EqualsSign>> \o EncodedSalt \o <<Comma, KeyI, EqualsSign, 50>>,
     \* only the r= attribute
     <<KeyR, EqualsSign>> \o ExtendedNonce,
     \* an attribute the client does not know: ",m=ext"
     ServerFirstMessage(ExtendedNonce, EncodedSalt, <<50>>)
        \o <<Comma, 109, EqualsSign, 101, 120, 116>>,
     \* i=2x, i=-0, i= 1
     ServerFirstMessage(ExtendedNonce, EncodedSalt, <<50, 120>>),
     ServerFirstMessage(ExtendedNonce, EncodedSalt, <<45, 48>>),
     ServerFirstMessage(ExtendedNonce, EncodedSalt, <<32, 49>>)}

\* Server first messages with something the loop may object to.
OtherChallenges ==
    {ServerFirstMessage(sn, EncodedSalt, <<50>>) : sn \in ForeignNonces}
    \cup
    {<<>>,
     \* "x", "rxy"
     <<120>>,
     <<KeyR, 120, 121>>,
     \* i=x, i=
     ServerFirstMessage(ExtendedNonce, EncodedSalt, <<120>>),
     ServerFirstMessage(ExtendedNonce, EncodedSalt, <<>>),
     \* a piece after the attributes: ",x", and ","
     ServerFirstMessage(ExtendedNonce, EncodedSalt, <<50>>) \o <<Comma, 120>>,
     ServerFirstMessage(ExtendedNonce, EncodedSalt, <<50>>) \o <<Comma>>,
     \* a second r= attribute, with a foreign nonce, after the others
     ServerFirstMessage(ExtendedNonce, EncodedSalt, <<50>>)
        \o <<Comma, KeyR, EqualsSign, 80>> \o clientNonce}

\* Server final messages: the expected one, one for another signature, and
\* the expected one without its "v=".
Verifiers ==
    {ExpectedMessage,
     <<118, EqualsSign>>
        \o Base64Encode([j \in 1..Len(serverSignature) |->
                            BitXor(serverSignature[j], 1)]),
     Base64Encode(serverSignature)}

ServerMessages == AcceptableChallenges \cup OtherChallenges \cup Verifiers

DoSetHashFunction ==
    \E in \in HashInputs :
        /\ SetHashFunction(in.hashFunction, in.blockSize, in.digestSize)
        /\ Called("SetHashFunction", <<>>)
        /\ UNCHANGED <<lastCredentials, twin>>

DoReset ==
    /\ Reset
    /\ Called("Reset", <<>>)
    /\ UNCHANGED <<lastCredentials, twin>>

DoSetCredentials ==
    \E c \in Secrets, a \in AuthenticationIdentities,
       z \in AuthorizationIdentities, randomBytes \in RandomOutputs :
        /\ SetCredentials(c, a, z, randomBytes)
        /\ Called("SetCredentials", <<>>)
        /\ lastCredentials' =
              [set |-> TRUE, credentials |-> c, authenticationIdentity |-> a,
               authorizationIdentity |-> z, randomBytes |-> randomBytes]
        /\ UNCHANGED twin

DoGetInitialResponse ==
    /\ GetInitialResponse
    /\ Called("GetInitialResponse", <<>>)
    /\ UNCHANGED <<lastCredentials, twin>>

\* Whether Proceed looks at its argument: at the steps ServerChallenge and
\* ServerSignature, unless faulted.
ExaminesMessage ==
    /\ ~faulted
    /\ step \in {StepServerChallenge, StepServerSignature}

DoProceed ==
    \E message \in ServerMessages :
        /\ Proceed(message)
        /\ Called("Proceed", IF ExaminesMessage THEN message ELSE <<>>)
        /\ UNCHANGED <<lastCredentials, twin>>

Next ==
    \/ DoSetHashFunction
    \/ DoReset
    \/ DoSetCredentials
    \/ DoGetInitialResponse
    \/ DoProceed

Spec == Init /\ [][Next]_vars

SpecLatch == InitLatch /\ [][Next]_vars

----------------------------------------------------------------------------
(* One exchange: a caller who constructs the instance, gives it a hash     *)
(* function and credentials, and then only calls Proceed, feeding it one   *)
(* server message after the other (at most MaxCalls of them).              *)

DoExchangeSetHashFunction ==
    /\ calls.made = 0
    /\ DoSetHashFunction

DoExchangeSetCredentials ==
    /\ calls.made = 0
    /\ DoSetCredentials

DoExchangeProceed ==
    /\ hashFunction # 0
    /\ lastCredentials.set
    /\ calls.made < MaxCalls
    /\ \E message \in ServerMessages :
        /\ Proceed(message)
        /\ CalledCounted("Proceed",
                         IF ExaminesMessage THEN message ELSE <<>>,
                         [made |-> calls.made + 1, turn |-> calls.turn + 1,
                          before |-> calls.made])
        /\ UNCHANGED <<lastCredentials, twin>>

NextExchange ==
    \/ DoExchangeSetHashFunction
    \/ DoExchangeSetCredentials
    \/ DoExchangeProceed

SpecExchange == Init /\ [][NextExchange]_vars

----------------------------------------------------------------------------
(* The random source at large: a caller who sets credentials again and     *)
(* again, while the random source goes through the octets.                 *)

\* NONCE_LENGTH octets that begin with b and go up by 23 * s from place to
\* place: all equal to b when s = 0; RandomOutput(k) when s = 1 and b is
\* 97 * k + 23.
RandomRamp(b, s) == [i \in 1..NONCE_LENGTH |-> (b + (i - 1) * 23 * s) % 256]

\* What rng.Generate may put into the buffer next: the outputs are
\* enumerated by their first octet, which is 0 in the first call and one
\* more (modulo 256) in each call that follows.
AnyRandomOutputs ==
    LET last == lastCredentials.randomBytes
        b == IF last = <<>> THEN 0 ELSE (last[1] + 1) % 256
    IN  {RandomRamp(b, s) : s \in 0..(NumRandom - 1)}

DoNonceSetCredentials ==
    \E c \in Secrets, a \in AuthenticationIdentities,
       z \in AuthorizationIdentities, randomBytes \in AnyRandomOutputs :
        /\ SetCredentials(c, a, z, randomBytes)
        /\ Called("SetCredentials", <<>>)
        /\ lastCredentials' =
              [set |-> TRUE, credentials |-> c, authenticationIdentity |-> a,
               authorizationIdentity |-> z, randomBytes |-> randomBytes]
        /\ UNCHANGED twin

NextNonce ==
    \/ DoNonceSetCredentials
    \/ DoGetInitialResponse

SpecNonce == Init /\ [][NextNonce]_vars

----------------------------------------------------------------------------
(* The callers of a Plain and of a Login instance.  Each call is made on   *)
(* the instance and, with another secret where it takes one, on a second   *)
(* instance of the same class (the twin).                                  *)

\* The secrets, among them the empty one.
Passwords == Secrets \cup {<<>>}

\* The authentication identities, among them the empty one.
Usernames == AuthenticationIdentities \cup {<<>>}

\* "", "Username:", "Password:"
ChallengeTexts ==
    {<<>>,
     <<85, 115, 101, 114, 110, 97, 109, 101, 58>>,
     <<80, 97, 115, 115, 119, 111, 114, 100, 58>>}

\* One more call, counted up to MaxCalls.
Count(n) == IF n < MaxCalls THEN n + 1 ELSE MaxCalls

\* Bookkeeping of a call on the Plain or Login instance.
Observed(op, result) ==
    /\ ret' = result.ret
    /\ threw' = FALSE
    /\ diag' = result.diag
    /\ lastOp' = op
    /\ lastMsg' = <<>>
    /\ UNCHANGED <<mechanism, pre, observed, everFaulted>>
    /\ UNCHANGED implVars

\* The twin after the same call, holding the given secret.
TwinAfter(result, credentials) ==
    [impl |-> result.impl, ret |-> result.ret, diag |-> result.diag,
     credentials |-> credentials, pending |-> <<>>, phase |-> "even"]

InitPlain ==
    /\ mechanism = "Plain"
    /\ Constructed
    /\ observed = FALSE
    /\ twin = [NoTwin EXCEPT !.impl = PlainConstructed]

DoPlainSetCredentials ==
    /\ mechanism = "Plain"
    /\ \E c \in Passwords, a \in Usernames, z \in AuthorizationIdentities :
           \E other \in Passwords \ {c} :
               LET result == PlainSetCredentials(plain, c, a, z)
               IN  /\ plain' = result.impl
                   /\ twin' = TwinAfter(PlainSetCredentials(twin.impl, other, a, z),
                                        other)
                   /\ Observed("SetCredentials", result)
                   /\ lastCredentials' =
                         [set |-> TRUE, credentials |-> c,
                          authenticationIdentity |-> a,
                          authorizationIdentity |-> z,
                          randomBytes |-> <<>>]
                   /\ calls' = [calls EXCEPT !.turn = 0, !.before = calls.made]
                   /\ UNCHANGED login

DoPlainGetInitialResponse ==
    /\ mechanism = "Plain"
    /\ LET result == PlainGetInitialResponse(plain)
       IN  /\ plain' = result.impl
           /\ twin' = TwinAfter(PlainGetInitialResponse(twin.impl),
                                twin.credentials)
           /\ Observed("GetInitialResponse", result)
           /\ calls' = [calls EXCEPT !.before = calls.made]
           /\ UNCHANGED <<lastCredentials, login>>

DoPlainProceed ==
    /\ mechanism = "Plain"
    /\ \E message \in ChallengeTexts :
           LET result == PlainProceed(plain, message)
           IN  /\ plain' = result.impl
               /\ twin' = TwinAfter(PlainProceed(twin.impl, message),
                                    twin.credentials)
               /\ Observed("Proceed", result)
               /\ calls' = [made |-> Count(calls.made),
                            turn |-> Count(calls.turn),
                            before |-> calls.made]
               /\ UNCHANGED <<lastCredentials, login>>

NextPlain ==
    \/ DoPlainSetCredentials
    \/ DoPlainGetInitialResponse
    \/ DoPlainProceed

SpecPlain == InitPlain /\ [][NextPlain]_vars

InitLogin ==
    /\ mechanism = "Login"
    /\ Constructed
    /\ observed = FALSE
    /\ twin = [NoTwin EXCEPT !.impl = LoginConstructed]

DoLoginSetCredentials ==
    /\ mechanism = "Login"
    /\ \E c \in Passwords, a \in Usernames, z \in AuthorizationIdentities :
           \E other \in Passwords \ {c} :
               LET result == LoginSetCredentials(login, c, a, z)
               IN  /\ login' = result.impl
                   /\ twin' = TwinAfter(LoginSetCredentials(twin.impl, other, a, z),
                                        other)
                   /\ Observed("SetCredentials", result)
                   /\ lastCredentials' =
                         [set |-> TRUE, credentials |-> c,
                          authenticationIdentity |-> a,
                          authorizationIdentity |-> z,
                          randomBytes |-> <<>>]
                   /\ calls' = [calls EXCEPT !.turn = 0, !.before = calls.made]
                   /\ UNCHANGED plain

DoLoginGetInitialResponse ==
    /\ mechanism = "Login"
    /\ LET result == LoginGetInitialResponse(login)
       IN  /\ login' = result.impl
           /\ twin' = TwinAfter(LoginGetInitialResponse(twin.impl),
                                twin.credentials)
           /\ Observed("GetInitialResponse", result)
           /\ calls' = [calls EXCEPT !.before = calls.made]
           /\ UNCHANGED <<lastCredentials, plain>>

\* The counter is a size_t: the calls are counted up to MaxCalls.
DoLoginProceed ==
    /\ mechanism = "Login"
    /\ login.numChallenges < MaxCalls
    /\ \E message \in ChallengeTexts :
        LET result == LoginProceed(login, message)
        IN  /\ login' = result.impl
            /\ twin' = TwinAfter(LoginProceed(twin.impl, message),
                                 twin.credentials)
            /\ Observed("Proceed", result)
            /\ calls' = [made |-> Count(calls.made),
                         turn |-> Count(calls.turn),
                         before |-> calls.made]
            /\ UNCHANGED <<lastCredentials, plain>>

DoLoginReset ==
    /\ mechanism = "Login"
    /\ LET result == LoginReset(login)
       IN  /\ login' = result.impl
           /\ twin' = TwinAfter(LoginReset(twin.impl), twin.credentials)
           /\ Observed("Reset", result)
           /\ calls' = [NoCalls EXCEPT !.before = calls.made]
           /\ UNCHANGED <<lastCredentials, plain>>

NextLogin ==
    \/ DoLoginSetCredentials
    \/ DoLoginGetInitialResponse
    \/ DoLoginProceed
    \/ DoLoginReset

SpecLogin == InitLogin /\ [][NextLogin]_vars

----------------------------------------------------------------------------
(* Two runs of one mechanism that differ in the secret only.  The caller   *)
(* makes every call on both instances, with the same identities, random    *)
(* octets and server messages.  For Scram the instance in use takes a      *)
(* call first; the caller then turns to the other instance and makes the   *)
(* same call there, with the other secret.                                 *)

\* The other secret of the two.
OtherSecret(c) == CHOOSE other \in Secrets : other # c

\* The Scram instance in use and what its caller has observed.
ScramRun ==
    [step |-> step, hashFunction |-> hashFunction, digestSize |-> digestSize,
     hmac |-> hmac, username |-> username,
     normalizedPassword |-> normalizedPassword,
     encodedChannelBinding |-> encodedChannelBinding,
     clientNonce |-> clientNonce, clientFirstMessage |-> clientFirstMessage,
     clientFirstMessageBare |-> clientFirstMessageBare,
     serverSignature |-> serverSignature, succeeded |-> succeeded,
     faulted |-> faulted, ret |-> ret, threw |-> threw, diag |-> diag,
     lastOp |-> lastOp, lastMsg |-> lastMsg, pre |-> pre,
     lastCredentials |-> lastCredentials]

\* A call without arguments.
NoArguments ==
    [op |-> "", credentials |-> <<>>, authenticationIdentity |-> <<>>,
     authorizationIdentity |-> <<>>, randomBytes |-> <<>>, message |-> <<>>,
     hashFunction |-> 0, blockSize |-> 0, digestSize |-> 0]

\* The server messages of the two runs: a server first message, the same
\* with an attribute more, "x", and the verifier the instance in use
\* expects.
TwinMessages ==
    {ServerFirstMessage(ExtendedNonce, EncodedSalt, Decimal(MaxIter)),
     ServerFirstMessage(ExtendedNonce, EncodedSalt, <<49>>)
        \o <<Comma, 109, EqualsSign, 101, 120, 116>>,
     <<120>>,
     ExpectedMessage}

\* The calls the caller may make next.
TwinCalls ==
    {[NoArguments EXCEPT !.op = "SetHashFunction",
                         !.hashFunction = in.hashFunction,
                         !.blockSize = in.blockSize,
                         !.digestSize = in.digestSize] : in \in HashInputs}
    \cup
    {[NoArguments EXCEPT !.op = o] : o \in {"Reset", "GetInitialResponse"}}
    \cup
    {[NoArguments EXCEPT !.op = "SetCredentials",
                         !.credentials = cz[1],
                         !.authenticationIdentity = cz[2],
                         !.authorizationIdentity = cz[3],
                         !.randomBytes = RandomOutput(1)] :
        cz \in Secrets \X AuthenticationIdentities \X AuthorizationIdentities}
    \cup
    {[NoArguments EXCEPT !.op = "Proceed", !.message = m] :
        m \in TwinMessages}

\* The call made on the instance in use, with the given secret.
ScramCall(call, secret) ==
    CASE call.op = "SetHashFunction" ->
            /\ SetHashFunction(call.hashFunction, call.blockSize,
                               call.digestSize)
            /\ Called("SetHashFunction", <<>>)
            /\ UNCHANGED lastCredentials
      [] call.op = "Reset" ->
            /\ Reset
            /\ Called("Reset", <<>>)
            /\ UNCHANGED lastCredentials
      [] call.op = "SetCredentials" ->
            /\ SetCredentials(secret, call.authenticationIdentity,
                              call.authorizationIdentity, call.randomBytes)
            /\ Called("SetCredentials", <<>>)
            /\ lastCredentials' =
                  [set |-> TRUE, credentials |-> secret,
                   authenticationIdentity |-> call.authenticationIdentity,
                   authorizationIdentity |-> call.authorizationIdentity,
                   randomBytes |-> call.randomBytes]
      [] call.op = "GetInitialResponse" ->
            /\ GetInitialResponse
            /\ Called("GetInitialResponse", <<>>)
            /\ UNCHANGED lastCredentials
      [] call.op = "Proceed" ->
            /\ Proceed(call.message)
            /\ Called("Proceed",
                      IF ExaminesMessage THEN call.message ELSE <<>>)
            /\ UNCHANGED lastCredentials

\* The next call, made on the instance in use.
DoScramAhead ==
    /\ mechanism = "Scram"
    /\ twin.phase = "even"
    /\ \E call \in TwinCalls :
        /\ ScramCall(call, call.credentials)
        /\ twin' = [twin EXCEPT !.pending = call, !.phase = "ahead"]

\* The caller turns to the other instance: it becomes the instance in use.
DoScramTurn ==
    /\ mechanism = "Scram"
    /\ twin.phase = "ahead"
    /\ twin' = [twin EXCEPT !.impl = ScramRun, !.ret = ret, !.diag = diag,
                            !.credentials = lastCredentials.credentials,
                            !.phase = "behind"]
    /\ step' = twin.impl.step
    /\ hashFunction' = twin.impl.hashFunction
    /\ digestSize' = twin.impl.digestSize
    /\ hmac' = twin.impl.hmac
    /\ username' = twin.impl.username
    /\ normalizedPassword' = twin.impl.normalizedPassword
    /\ encodedChannelBinding' = twin.impl.encodedChannelBinding
    /\ clientNonce' = twin.impl.clientNonce
    /\ clientFirstMessage' = twin.impl.clientFirstMessage
    /\ clientFirstMessageBare' = twin.impl.clientFirstMessageBare
    /\ serverSignature' = twin.impl.serverSignature
    /\ succeeded' = twin.impl.succeeded
    /\ faulted' = twin.impl.faulted
    /\ ret' = twin.impl.ret
    /\ threw' = twin.impl.threw
    /\ diag' = twin.impl.diag
    /\ lastOp' = twin.impl.lastOp
    /\ lastMsg' = twin.impl.lastMsg
    /\ pre' = twin.impl.pre
    /\ lastCredentials' = twin.impl.lastCredentials
    /\ UNCHANGED <<mechanism, plain, login, calls, observed, everFaulted>>

\* The same call, made on the instance now in use, with the other secret.
DoScramBehind ==
    /\ mechanism = "Scram"
    /\ twin.phase = "behind"
    /\ ScramCall(twin.pending, OtherSecret(twin.pending.credentials))
    /\ twin' = [twin EXCEPT !.pending = <<>>, !.phase = "even"]

NextTwin ==
    \/ DoScramAhead
    \/ DoScramTurn
    \/ DoScramBehind

\* One mechanism of the three, in two runs.
InitSecret ==
    /\ mechanism \in {"Plain", "Login", "Scram"}
    /\ Constructed
    /\ observed = FALSE
    /\ twin = [NoTwin EXCEPT
                  !.impl = CASE mechanism = "Plain" -> PlainConstructed
                             [] mechanism = "Login" -> LoginConstructed
                             [] OTHER -> ScramRun]

NextSecret ==
    \/ NextPlain
    \/ NextLogin
    \/ NextTwin

SpecSecret == InitSecret /\ [][NextSecret]_vars

----------------------------------------------------------------------------
(* The reference derivation of the tests (ScramTests.cpp).                 *)

\* The expected client proof and server signature, both Base64 encoded,
\* for a client without authorization identity and the server first
\* message "r=<serverNonce>,s=<salt>,i=<numIterations>".
ComputeClientProofAndServerSignature(user, password, base64EncodedSalt, cNonce, serverNonce, numIterations, hf, blockSize, dSize) ==
    LET salt == Base64Decode(base64EncodedSalt)
        f == [h |-> hf, blockSize |-> blockSize]
        saltedPassword ==
            Pbkdf2(f, dSize, Normalize(password), salt, numIterations,
                   dSize \div 8)
        clientKey ==
            Hmac(f, saltedPassword,
                 <<67, 108, 105, 101, 110, 116, 32, 75, 101, 121>>)
        storedKey == ToyHash(hf, clientKey)
        bare == <<110, 61>> \o user \o <<44, 114, 61>> \o cNonce
        withoutProof == <<99, 61, 98, 105, 119, 115, 44, 114, 61>>
                        \o serverNonce
        serverFirstMessage ==
            <<114, 61>> \o serverNonce \o <<44, 115, 61>>
            \o base64EncodedSalt \o <<44, 105, 61>> \o Decimal(numIterations)
        authMessage ==
            bare \o <<44>> \o serverFirstMessage \o <<44>> \o withoutProof
        clientSignature == Hmac(f, storedKey, authMessage)
        clientProof ==
            [i \in 1..Len(storedKey) |->
                BitXor(clientKey[i], clientSignature[i])]
        serverKey ==
            Hmac(f, saltedPassword,
                 <<83, 101, 114, 118, 101, 114, 32, 75, 101, 121>>)
        signature == Hmac(f, serverKey, authMessage)
    IN  [clientProof |-> Base64Encode(clientProof),
         serverSignature |-> Base64Encode(signature)]

----------------------------------------------------------------------------
(* Vocabulary of the properties.                                           *)

\* The last call was a Proceed made at step s while not faulted.
ProceededAt(s) ==
    /\ lastOp = "Proceed"
    /\ pre.step = s
    /\ ~pre.faulted

\* The last call returned the empty string.
ReturnedEmpty == ret = <<>> /\ ~threw

\* p is a prefix of s.
IsPrefix(p, s) ==
    /\ Len(p) <= Len(s)
    /\ \A j \in 1..Len(p) : s[j] = p[j]

\* The comma-separated pieces of the message the last Proceed examined.
LastPieces == Split(lastMsg, Comma)

\* A piece is an attribute: at least three characters, the second an '='.
IsAttribute(piece) == Len(piece) >= 3 /\ piece[2] = EqualsSign

\* A piece is the attribute of the given key.
HasKey(piece, key) == IsAttribute(piece) /\ piece[1] = key

\* The value of an attribute: what follows its '='.
ValueOf(piece) == [j \in 1..(Len(piece) - 2) |-> piece[j + 2]]

\* A numeral of decimal digits only.
IsNumeral(s) == Len(s) >= 1 /\ \A j \in 1..Len(s) : s[j] >= 48 /\ s[j] <= 57

\* A decimal integer >= 1.
IsPositiveNumeral(s) == IsNumeral(s) /\ \E j \in 1..Len(s) : s[j] # 48

RECURSIVE NumeralValue(_, _)
\* The number the first k digits of a numeral denote.
NumeralValue(s, k) ==
    IF k = 0 THEN 0 ELSE NumeralValue(s, k - 1) * 10 + (s[k] - 48)

\* The value of the last attribute of the given key among the pieces, or
\* the default when there is none.
LastValueOf(pieces, key, default) ==
    IF \E k \in 1..Len(pieces) : HasKey(pieces[k], key)
    THEN ValueOf(pieces[CHOOSE k \in 1..Len(pieces) :
                            /\ HasKey(pieces[k], key)
                            /\ \A j \in (k + 1)..Len(pieces) :
                                  ~HasKey(pieces[j], key)])
    ELSE default

----------------------------------------------------------------------------
(* C1.  Fault latch.                                                       *)

\* C1 as claimed: once Faulted() has become true, every later Proceed
\* returns the empty string and Succeeded() is never true afterwards,
\* whatever operations (Reset among them) are called in between.
C1_LatchWhateverIsCalled ==
    (everFaulted /\ hashFunction # 0 /\ lastCredentials.set) =>
        /\ ~succeeded
        /\ (lastOp = "Proceed" => ret = <<>>)

\* C1, amended: while Faulted() is true and until Reset is called, every
\* Proceed returns the empty string, Faulted() stays true and Succeeded()
\* stays false, whatever other operations are called in between.
C1_LatchUntilReset ==
    (pre.faulted /\ lastOp # "Reset") =>
        /\ faulted
        /\ ~succeeded
        /\ (lastOp = "Proceed" => ReturnedEmpty)

\* A Proceed with an acceptable challenge was made on a faulted instance
\* with a hash function and credentials, and returned nothing.
C1_Witness ==
    /\ pre.faulted
    /\ lastOp = "Proceed"
    /\ hashFunction # 0
    /\ lastCredentials.set
    /\ everFaulted
    /\ ReturnedEmpty

----------------------------------------------------------------------------
(* C2.  Verifier check.                                                    *)

\* C2: a Proceed(message) at step ServerSignature moves the step to Done
\* and returns the empty string; succeeded is true afterwards exactly when
\* message equals "v=" followed by Base64 of the retained server
\* signature; faulted is not set.
C2_VerifierCheck ==
    ProceededAt(StepServerSignature) =>
        /\ step = StepDone
        /\ ReturnedEmpty
        /\ ~faulted
        /\ succeeded = (lastMsg = <<118, 61>> \o Base64Encode(serverSignature))

\* The verifier matched a signature that was computed.
C2_Witness ==
    /\ ProceededAt(StepServerSignature)
    /\ serverSignature # <<>>
    /\ succeeded

----------------------------------------------------------------------------
(* C3.  Nonce-substitution defence.                                        *)

\* C3: whenever a Proceed at step ServerChallenge does not fault (here on
\* an instance with credentials), the server nonce of the client final
\* message it returns begins with the client nonce.
C3_FinalNonceHasClientNonce ==
    (/\ ProceededAt(StepServerChallenge)
     /\ lastCredentials.set
     /\ ~faulted
     /\ ~threw) =>
        IsPrefix(<<99, 61>> \o encodedChannelBinding \o <<44, 114, 61>>
                 \o clientNonce, ret)

----------------------------------------------------------------------------
(* C4.  Malformed challenge.                                               *)

\* C4: at step ServerChallenge, if any piece of the server message, at any
\* position, is shorter than 3 or has no '=' at index 1, Proceed returns
\* the empty string, faulted is true and the step is still ServerChallenge.
C4_MalformedPieceFaults ==
    (/\ ProceededAt(StepServerChallenge)
     /\ \E k \in 1..Len(LastPieces) : ~IsAttribute(LastPieces[k])) =>
        /\ ReturnedEmpty
        /\ faulted
        /\ step = StepServerChallenge

\* The malformed piece came last, after acceptable r=, s= and i=
\* attributes, on an instance with credentials.
C4_Witness ==
    /\ ProceededAt(StepServerChallenge)
    /\ lastCredentials.set
    /\ Len(LastPieces) = 4
    /\ HasKey(LastPieces[1], KeyR)
    /\ IsPrefix(clientNonce, ValueOf(LastPieces[1]))
    /\ HasKey(LastPieces[2], KeyS)
    /\ HasKey(LastPieces[3], KeyI)
    /\ IsPositiveNumeral(ValueOf(LastPieces[3]))
    /\ ~IsAttribute(LastPieces[4])
    /\ faulted

----------------------------------------------------------------------------
(* C5.  The r= check.                                                      *)

\* A piece is an r= attribute whose value does not begin with the client
\* nonce.
IsForeignNonce(piece) ==
    HasKey(piece, KeyR) /\ ~IsPrefix(clientNonce, ValueOf(piece))

\* C5: at step ServerChallenge, a server message with an r= attribute
\* whose value does not begin with the client nonce makes Proceed return
\* the empty string and set faulted; when every r= value begins with the
\* client nonce (or equals it), a fault has another cause: a piece that is
\* no attribute, or an i= attribute that does not convert.
C5_NonceCheck ==
    ProceededAt(StepServerChallenge) =>
        /\ (\E k \in 1..Len(LastPieces) : IsForeignNonce(LastPieces[k]))
                => (faulted /\ ReturnedEmpty)
        /\ (/\ faulted
            /\ \A k \in 1..Len(LastPieces) : ~IsForeignNonce(LastPieces[k]))
                => \E k \in 1..Len(LastPieces) :
                      \/ ~IsAttribute(LastPieces[k])
                      \/ /\ HasKey(LastPieces[k], KeyI)
                         /\ ScanSizeT(ValueOf(LastPieces[k])).count # 1

\* The only objection to the message was the nonce of its r= attribute.
C5_Witness ==
    /\ ProceededAt(StepServerChallenge)
    /\ lastCredentials.set
    /\ faulted
    /\ \A k \in 1..Len(LastPieces) : IsAttribute(LastPieces[k])
    /\ \E k \in 1..Len(LastPieces) : IsForeignNonce(LastPieces[k])
    /\ \A k \in 1..Len(LastPieces) :
          HasKey(LastPieces[k], KeyI)
              => IsPositiveNumeral(ValueOf(LastPieces[k]))

----------------------------------------------------------------------------
(* C6.  Iteration count.                                                   *)

\* C6: at step ServerChallenge (here on an instance with a hash function
\* and credentials), an i= attribute whose value is not a decimal integer
\* >= 1 makes Proceed return the empty string and set faulted.
C6_IterationCountChecked ==
    (/\ ProceededAt(StepServerChallenge)
     /\ hashFunction # 0
     /\ lastCredentials.set
     /\ \E k \in 1..Len(LastPieces) :
           /\ HasKey(LastPieces[k], KeyI)
           /\ ~IsPositiveNumeral(ValueOf(LastPieces[k]))) =>
        (faulted /\ ret = <<>>)

----------------------------------------------------------------------------
(* C7.  SetCredentials and the session.                                    *)

\* C7: after SetCredentials, in any state, the step is ClientNonce and
\* Succeeded() and Faulted() are false.
C7_SetCredentialsStartsAfresh ==
    lastOp = "SetCredentials" =>
        /\ step = StepClientNonce
        /\ ~succeeded
        /\ ~faulted

----------------------------------------------------------------------------
(* C8.  Nonce stability.                                                   *)

\* C8: the client first message changes only in SetCredentials; every
\* GetInitialResponse, at any step, returns it and changes neither the
\* step nor succeeded nor faulted; the Proceed made at step ClientNonce
\* returns it too, whatever the server message.
C8_NonceStability ==
    [][/\ (lastOp' # "SetCredentials")
              => (clientFirstMessage' = clientFirstMessage)
       /\ (lastOp' = "GetInitialResponse")
              => /\ ret' = clientFirstMessage
                 /\ ~threw'
                 /\ UNCHANGED <<step, succeeded, faulted>>
       /\ (lastOp' = "Proceed" /\ step = StepClientNonce)
              => (ret' = clientFirstMessage /\ ~threw')]_vars

\* GetInitialResponse was called after the exchange had ended, and
\* returned the client first message of the credentials.
C8_Witness ==
    /\ lastOp = "GetInitialResponse"
    /\ step = StepDone
    /\ lastCredentials.set
    /\ ret = clientFirstMessage
    /\ IsPrefix(<<110, 44>>, ret)

----------------------------------------------------------------------------
(* C9.  The client final message.                                          *)

\* The reference derivation for a client with the given identities and
\* password and the given server first message: the client final message
\* and the server signature.
ReferenceDerivation(user, password, authz, cNonce, serverFirst, f, dSize) ==
    LET pieces == Split(serverFirst, Comma)
        serverNonce == LastValueOf(pieces, KeyR, <<>>)
        salt == Base64Decode(LastValueOf(pieces, KeyS, <<>>))
        count == LastValueOf(pieces, KeyI, <<49>>)
        iterations == NumeralValue(count, Len(count))
        saltedPassword ==
            Pbkdf2(f, dSize, password, salt, iterations, dSize \div 8)
        clientKey ==
            Hmac(f, saltedPassword,
                 <<67, 108, 105, 101, 110, 116, 32, 75, 101, 121>>)
        serverKey ==
            Hmac(f, saltedPassword,
                 <<83, 101, 114, 118, 101, 114, 32, 75, 101, 121>>)
        storedKey == ToyHash(f.h, clientKey)
        withoutProof ==
            <<99, 61>> \o Base64Encode(<<110, 44>> \o authz \o <<44>>)
            \o <<44, 114, 61>> \o serverNonce
        authMessage ==
            <<110, 61>> \o user \o <<44, 114, 61>> \o cNonce \o <<44>>
            \o serverFirst \o <<44>> \o withoutProof
        clientProof == XorBytes(clientKey, Hmac(f, storedKey, authMessage))
    IN  [message |-> withoutProof \o <<44, 112, 61>>
                     \o Base64Encode(clientProof),
         serverSignature |-> Hmac(f, serverKey, authMessage)]

\* The server first messages of the form the tests feed.
IsTestChallenge(serverNonce, n) ==
    lastMsg = ServerFirstMessage(serverNonce, EncodedSalt, Decimal(n))

\* C9: a Proceed(serverFirst) at step ServerChallenge that does not fault,
\* on an instance with a hash function and credentials and for iteration
\* counts that are decimal integers >= 1, returns the client final message
\* of the reference derivation and retains its server signature; for a
\* client without authorization identity and a server first message
\* "r=..,s=..,i=.." these are the values the derivation of the tests
\* computes.
C9_ClientFinalMessage ==
    (/\ ProceededAt(StepServerChallenge)
     /\ ~faulted
     /\ ~threw
     /\ lastCredentials.set
     /\ \A k \in 1..Len(LastPieces) :
           HasKey(LastPieces[k], KeyI)
               => IsPositiveNumeral(ValueOf(LastPieces[k]))) =>
        LET ref == ReferenceDerivation(
                       lastCredentials.authenticationIdentity,
                       lastCredentials.credentials,
                       lastCredentials.authorizationIdentity,
                       clientNonce, lastMsg, hmac, digestSize)
        IN  /\ ret = ref.message
            /\ serverSignature = ref.serverSignature
            /\ \A n \in 1..MaxIter, sn \in {clientNonce, ExtendedNonce} :
                  (/\ IsTestChallenge(sn, n)
                   /\ lastCredentials.authorizationIdentity = <<>>) =>
                      LET expected ==
                              ComputeClientProofAndServerSignature(
                                  lastCredentials.authenticationIdentity,
                                  lastCredentials.credentials,
                                  EncodedSalt, clientNonce, sn, n,
                                  hmac.h, hmac.blockSize, digestSize)
                      IN  /\ ret = <<99, 61, 98, 105, 119, 115, 44, 114, 61>>
                                   \o sn \o <<44, 112, 61>>
                                   \o expected.clientProof
                          /\ Base64Encode(serverSignature)
                                 = expected.serverSignature

\* The client final message was returned for a server first message with
\* an extended nonce, a salt and the largest iteration count, to a client
\* with an authorization identity.
C9_Witness ==
    /\ ProceededAt(StepServerChallenge)
    /\ step = StepServerSignature
    /\ ~threw
    /\ lastCredentials.set
    /\ lastCredentials.authorizationIdentity # <<>>
    /\ IsTestChallenge(ExtendedNonce, MaxIter)
    /\ Len(ret) > Len(lastMsg)

----------------------------------------------------------------------------
(* C10.  Reset.                                                            *)

\* C10: after Reset, Succeeded() and Faulted() are false; the step, the
\* client nonce, the cached client first messages, the encoded channel
\* binding and the retained server signature are as before.
C10_ResetClearsOnlyFlags ==
    [][(lastOp' = "Reset") =>
          /\ ~succeeded'
          /\ ~faulted'
          /\ UNCHANGED <<step, clientNonce, clientFirstMessage,
                         clientFirstMessageBare, encodedChannelBinding,
                         serverSignature>>]_vars

\* Reset was called on an instance that had succeeded: the flag is
\* cleared, the step is still Done, nonce and signature are still there.
C10_Witness ==
    /\ lastOp = "Reset"
    /\ pre.succeeded
    /\ ~succeeded
    /\ step = StepDone
    /\ clientNonce # <<>>
    /\ serverSignature # <<>>

----------------------------------------------------------------------------
(* C11.  Reset and the exchange that follows it.                           *)

\* C11: after Reset, called in any state of an instance that has
\* credentials, the next Proceed behaves like the first Proceed of a new
\* exchange: it returns the client first message and the step becomes
\* ServerChallenge.
C11_ResetRestartsExchange ==
    [][(lastOp = "Reset" /\ lastCredentials.set /\ lastOp' = "Proceed") =>
          /\ ret' = clientFirstMessage
          /\ step' = StepServerChallenge]_vars

----------------------------------------------------------------------------
(* C12.  Errors raised out of the API.                                     *)

\* C12: every call returns normally, in any call order.
C12_NoErrorRaised == ~threw

----------------------------------------------------------------------------
(* C13.  An empty return ends the exchange.                                *)

\* C13: on an instance with credentials, when a Proceed has returned the
\* empty string, the Proceed called next (no Reset or SetCredentials in
\* between) returns the empty string too.
C13_EmptyReturnIsFinal ==
    [][(/\ lastCredentials.set
        /\ lastOp = "Proceed"
        /\ ReturnedEmpty
        /\ lastOp' = "Proceed") => ret' = <<>>]_vars

----------------------------------------------------------------------------
(* C14.  Login: user name, then password, then nothing.                    *)

\* C14 as claimed: after SetCredentials(s, a, _) on a Login, the first
\* Proceed that follows returns a, the second s, every later one the empty
\* string.
C14_LoginAlternation ==
    (mechanism = "Login" /\ lastOp = "Proceed" /\ lastCredentials.set) =>
        ret = CASE calls.turn = 1 -> lastCredentials.authenticationIdentity
                [] calls.turn = 2 -> lastCredentials.credentials
                [] OTHER -> <<>>

\* C14, amended: the first Proceed since the construction or the latest
\* Reset returns the user name, the second the password, every later one
\* the empty string, for every server message; user name and password are
\* the authentication identity and the secret of the latest SetCredentials
\* (empty before any), whatever its authorization identity.
C14_LoginSequence ==
    (mechanism = "Login" /\ lastOp = "Proceed") =>
        ret = CASE calls.made = 1 -> lastCredentials.authenticationIdentity
                [] calls.made = 2 -> lastCredentials.credentials
                [] OTHER -> <<>>

\* The second Proceed of a Login returned the password of credentials that
\* were set, with an authorization identity, after the first Proceed.
C14_Witness ==
    /\ mechanism = "Login"
    /\ lastOp = "Proceed"
    /\ calls.made = 2
    /\ calls.turn = 1
    /\ lastCredentials.authorizationIdentity # <<>>
    /\ lastCredentials.authenticationIdentity # <<>>
    /\ ret = lastCredentials.credentials
    /\ ret # <<>>

----------------------------------------------------------------------------
(* C15.  Login: Reset.                                                     *)

\* C15: Reset, called after any number of Proceed calls, leaves the
\* counter at zero and the stored user name and password as they were;
\* the Proceed calls that follow return the user name, then the password,
\* then the empty string, for every server message.
C15_ResetRestartsLogin ==
    [][(mechanism = "Login" /\ lastOp' = "Reset") =>
          /\ login' = [login EXCEPT !.numChallenges = 0]
          /\ \A m1, m2, m3 \in ChallengeTexts :
                LET first == LoginProceed(login', m1)
                    second == LoginProceed(first.impl, m2)
                    third == LoginProceed(second.impl, m3)
                IN  /\ first.ret = login.username
                    /\ second.ret = login.password
                    /\ third.ret = <<>>]_vars

\* Reset was called on a Login that had given user name and password.
C15_Witness ==
    /\ mechanism = "Login"
    /\ lastOp = "Reset"
    /\ calls.before >= 2
    /\ login.numChallenges = 0
    /\ login.username # <<>>
    /\ login.password # <<>>

----------------------------------------------------------------------------
(* C16.  Plain: Proceed.                                                   *)

\* The record of the latest SetCredentials: authorization identity, NUL,
\* authentication identity, NUL, secret.
PlainRecord ==
    lastCredentials.authorizationIdentity \o <<0>>
    \o lastCredentials.authenticationIdentity \o <<0>>
    \o lastCredentials.credentials

\* C16: on a Plain with credentials set, the first Proceed call made on
\* the instance returns the record, every later one the empty string,
\* whatever the server message and however often GetInitialResponse was
\* called.
C16_PlainProceed ==
    (mechanism = "Plain" /\ lastOp = "Proceed" /\ lastCredentials.set) =>
        ret = IF calls.made = 1 THEN PlainRecord ELSE <<>>

\* The first Proceed of a Plain returned the record, an authorization
\* identity in it.
C16_Witness ==
    /\ mechanism = "Plain"
    /\ lastOp = "Proceed"
    /\ lastCredentials.set
    /\ lastCredentials.authorizationIdentity # <<>>
    /\ calls.made = 1
    /\ Len(ret) > 2
    /\ plain.credentialsSent

----------------------------------------------------------------------------
(* C17.  Plain: the layout of the record.                                  *)

\* C17: GetInitialResponse returns the authorization identity, one NUL
\* octet, the authentication identity, one NUL octet and the secret of
\* the latest SetCredentials, and nothing else: for ("hunter2", "bob", "")
\* the twelve octets NUL "bob" NUL "hunter2".
C17_PlainRecordLayout ==
    (/\ mechanism = "Plain"
     /\ lastOp = "GetInitialResponse"
     /\ lastCredentials.set) =>
        LET z == lastCredentials.authorizationIdentity
            a == lastCredentials.authenticationIdentity
            s == lastCredentials.credentials
        IN  /\ Len(ret) = Len(z) + Len(a) + Len(s) + 2
            /\ \A j \in 1..Len(ret) :
                  ret[j] = IF j <= Len(z) THEN z[j]
                           ELSE IF j = Len(z) + 1 THEN 0
                           ELSE IF j <= Len(z) + 1 + Len(a)
                                THEN a[j - Len(z) - 1]
                           ELSE IF j = Len(z) + Len(a) + 2 THEN 0
                           ELSE s[j - Len(z) - Len(a) - 2]
            /\ (/\ z = <<>>
                /\ a = <<98, 111, 98>>
                /\ s = <<104, 117, 110, 116, 101, 114, 50>>) =>
                  ret = <<0, 98, 111, 98, 0, 104, 117, 110, 116, 101, 114, 50>>

\* GetInitialResponse returned a record that begins with NUL, after the
\* credentials had been replaced by some without authorization identity.
C17_Witness ==
    /\ mechanism = "Plain"
    /\ lastOp = "GetInitialResponse"
    /\ lastCredentials.set
    /\ lastCredentials.authorizationIdentity = <<>>
    /\ lastCredentials.credentials # <<>>
    /\ Len(ret) > 2
    /\ ret[1] = 0
    /\ plain.credentialsSent

----------------------------------------------------------------------------
(* C18.  Scram: the client first message.                                  *)

\* sub occurs in s.
Contains(s, sub) ==
    \E k \in 0..(Len(s) - Len(sub)) :
        \A j \in 1..Len(sub) : s[k + j] = sub[j]

\* C18: once SetCredentials(secret, authn, authz) was called, the cached
\* client first message is "n," authz "," "n=" authn ",r=" clientNonce, with
\* authn and authz as they were passed, GetInitialResponse returns it, the
\* secret does not occur in it, and the cached channel binding is the
\* Base64 encoding of "n," authz ",": "biws" without authorization
\* identity, "bixhbGV4LA==" for "alex".
C18_ClientFirstMessage ==
    (mechanism = "Scram" /\ lastCredentials.set) =>
        LET z == lastCredentials.authorizationIdentity
            a == lastCredentials.authenticationIdentity
            first == <<110, 44>> \o z \o <<44, 110, 61>> \o a
                     \o <<44, 114, 61>> \o clientNonce
        IN  /\ clientFirstMessage = first
            /\ lastOp = "GetInitialResponse" => (ret = first /\ ~threw)
            /\ ~Contains(clientFirstMessage, lastCredentials.credentials)
            /\ encodedChannelBinding = Base64Encode(<<110, 44>> \o z \o <<44>>)
            /\ z = <<>> => encodedChannelBinding = <<98, 105, 119, 115>>
            /\ z = <<97, 108, 101, 120>> =>
                  encodedChannelBinding =
                      <<98, 105, 120, 104, 98, 71, 86, 52, 76, 65, 61, 61>>

\* GetInitialResponse returned "n,alex,n=bob,r=" and a nonce.
C18_Witness ==
    /\ mechanism = "Scram"
    /\ lastOp = "GetInitialResponse"
    /\ lastCredentials.set
    /\ lastCredentials.authorizationIdentity = <<97, 108, 101, 120>>
    /\ Len(clientNonce) = NONCE_LENGTH
    /\ Len(ret) = 15 + NONCE_LENGTH
    /\ SubstrTo(ret, 15) =
          <<110, 44, 97, 108, 101, 120, 44, 110, 61, 98, 111, 98, 44, 114, 61>>

----------------------------------------------------------------------------
(* C20.  Scram: attributes the client does not know.                       *)

\* The pieces are all attributes, every r= value begins with the client
\* nonce and every i= value is a decimal integer >= 1.
KnownAttributesValid(pieces) ==
    \A k \in 1..Len(pieces) :
        /\ IsAttribute(pieces[k])
        /\ HasKey(pieces[k], KeyR) => IsPrefix(clientNonce, ValueOf(pieces[k]))
        /\ HasKey(pieces[k], KeyI) => IsPositiveNumeral(ValueOf(pieces[k]))

\* Some piece is an attribute whose key is not r, s or i.
HasUnknownAttribute(pieces) ==
    \E k \in 1..Len(pieces) :
        /\ IsAttribute(pieces[k])
        /\ pieces[k][1] \notin {KeyR, KeyS, KeyI}

\* C20: a Proceed at step ServerChallenge whose message consists of
\* attributes, with valid r= and i= values, does not fault and moves the
\* step to ServerSignature, whether or not attributes with other keys are
\* among them: an attribute with another key never causes a fault.
C20_UnknownAttributesIgnored ==
    (ProceededAt(StepServerChallenge) /\ KnownAttributesValid(LastPieces)) =>
        /\ ~faulted
        /\ step = StepServerSignature

\* A server first message with the attribute m=ext was accepted and
\* answered.
C20_Witness ==
    /\ ProceededAt(StepServerChallenge)
    /\ KnownAttributesValid(LastPieces)
    /\ HasUnknownAttribute(LastPieces)
    /\ step = StepServerSignature
    /\ ~faulted
    /\ ~threw
    /\ ret # <<>>

----------------------------------------------------------------------------
(* C19.  Diagnostics and the secret.                                       *)

\* C19: of two runs of a mechanism that get the same calls, identities,
\* random octets and server messages but different secrets, each call
\* publishes the same diagnostic messages in both.
C19_DiagnosticsIgnoreSecret ==
    twin.phase = "even" => diag = twin.diag

\* Two Scram runs with different secrets have answered the same server
\* first message: the client final messages differ, the diagnostic
\* messages are the same.
C19_Witness ==
    /\ mechanism = "Scram"
    /\ twin.phase = "even"
    /\ ProceededAt(StepServerChallenge)
    /\ lastCredentials.set
    /\ lastCredentials.credentials # twin.credentials
    /\ ~threw
    /\ ret # <<>>
    /\ ret # twin.ret
    /\ diag # <<>>
    /\ diag = twin.diag

----------------------------------------------------------------------------
(* C21.  Plain and Login cannot determine the outcome.                     *)

\* C21: in every reachable state of a Plain or of a Login, after any
\* sequence of operations, Succeeded() returns false and Faulted() returns
\* false.
C21_OutcomeUndetermined ==
    /\ mechanism = "Plain" => (~PlainSucceeded(plain) /\ ~PlainFaulted(plain))
    /\ mechanism = "Login" => (~LoginSucceeded(login) /\ ~LoginFaulted(login))

\* A Plain with credentials has sent its record and been asked again:
\* neither success nor fault is reported.
C21_Witness ==
    /\ mechanism = "Plain"
    /\ lastCredentials.set
    /\ lastOp = "Proceed"
    /\ calls.made >= 2
    /\ plain.credentialsSent
    /\ ~PlainSucceeded(plain)
    /\ ~PlainFaulted(plain)

----------------------------------------------------------------------------
(* C22.  Scram: the shape of the nonce.                                    *)

\* C22: after every SetCredentials, for every output of the random source,
\* the client nonce has exactly 24 characters, none of them a comma, so
\* that the client first message (identities without comma) ends with the
\* single attribute "r=" nonce: the bare message has two pieces, the
\* second of them that attribute.
C22_NonceShape ==
    (mechanism = "Scram" /\ lastCredentials.set) =>
        /\ Len(lastCredentials.randomBytes) = NONCE_LENGTH
        /\ Len(clientNonce) = 24
        /\ \A k \in 1..Len(clientNonce) : clientNonce[k] # Comma
        /\ LET pieces == Split(clientFirstMessageBare, Comma)
           IN  /\ Len(pieces) = 2
               /\ pieces[2] = <<KeyR, EqualsSign>> \o clientNonce
        /\ LET pieces == Split(clientFirstMessage, Comma)
           IN  pieces[Len(pieces)] = <<KeyR, EqualsSign>> \o clientNonce

\* SetCredentials was called when the random source gave the octet 11 at
\* every place: the nonce is made of the twelfth character of the
\* dictionary, '-', which follows '+'.
C22_Witness ==
    /\ mechanism = "Scram"
    /\ lastOp = "SetCredentials"
    /\ lastCredentials.set
    /\ lastCredentials.randomBytes = [i \in 1..NONCE_LENGTH |-> 11]
    /\ clientNonce = [i \in 1..24 |-> 45]

----------------------------------------------------------------------------
(* C23.  Scram: the dictionary of the nonce.                               *)

\* The dictionary holds size distinct printable ASCII characters, and each
\* character of the nonce is the one at the index (from 0) of the
\* corresponding random octet modulo size.
NonceDrawnFrom(size) ==
    /\ Len(PRINTABLES) = size
    /\ \A i \in 1..Len(PRINTABLES) :
          /\ PRINTABLES[i] >= 32
          /\ PRINTABLES[i] <= 126
          /\ \A j \in 1..Len(PRINTABLES) :
                PRINTABLES[i] = PRINTABLES[j] => i = j
    /\ Len(clientNonce) = Len(lastCredentials.randomBytes)
    /\ \A k \in 1..Len(clientNonce) :
          /\ lastCredentials.randomBytes[k] \in 0..255
          /\ clientNonce[k] =
                PRINTABLES[(lastCredentials.randomBytes[k] % size) + 1]

\* C23 as claimed: each character of the nonce is PRINTABLES[b mod
\* |PRINTABLES|] for the corresponding random octet b, PRINTABLES being a
\* dictionary of exactly 90 distinct printable ASCII characters.
C23_DictionaryOfNinety ==
    (mechanism = "Scram" /\ lastCredentials.set) => NonceDrawnFrom(90)

\* C23, amended: each character of the nonce is PRINTABLES[b mod
\* |PRINTABLES|] for the corresponding random octet b, PRINTABLES being a
\* dictionary of exactly 93 distinct printable ASCII characters: those
\* from '!' to '~' without the comma.
C23_NonceDictionary ==
    (mechanism = "Scram" /\ lastCredentials.set) =>
        /\ NonceDrawnFrom(93)
        /\ \A c \in 33..126 :
              (c # Comma) <=> (\E i \in 1..Len(PRINTABLES) : PRINTABLES[i] = c)

\* The random source gave octets beyond the size of the dictionary, 255
\* the first of them: the nonce begins with the character at index
\* 255 mod 93 = 69, 'g'.
C23_Witness ==
    /\ mechanism = "Scram"
    /\ lastOp = "SetCredentials"
    /\ lastCredentials.set
    /\ lastCredentials.randomBytes[1] = 255
    /\ \A k \in 1..NONCE_LENGTH : lastCredentials.randomBytes[k] >= 90
    /\ clientNonce[1] = 103

----------------------------------------------------------------------------
(* C24.  Scram: the absorbing states.                                      *)

\* C24: while faulted is true or the step is Done, Proceed returns the
\* empty string for every message, publishes no diagnostic message and
\* leaves the step, succeeded, faulted, the nonce, the cached messages and
\* the retained server signature as they were.
C24_AbsorbingStates ==
    [][(lastOp' = "Proceed" /\ (faulted \/ step = StepDone)) =>
          /\ ret' = <<>>
          /\ ~threw'
          /\ diag' = <<>>
          /\ UNCHANGED <<step, succeeded, faulted, clientNonce,
                         clientFirstMessage, clientFirstMessageBare,
                         serverSignature>>]_vars

\* Proceed was called after the exchange had ended in success: nothing was
\* returned or published, the step is still Done and success still
\* reported.
C24_Witness ==
    /\ lastOp = "Proceed"
    /\ pre.step = StepDone
    /\ pre.succeeded
    /\ ~pre.faulted
    /\ step = StepDone
    /\ succeeded
    /\ serverSignature # <<>>
    /\ ReturnedEmpty
    /\ diag = <<>>

----------------------------------------------------------------------------
(* C25.  Scram: the exchange is bounded.                                   *)

\* The place of a step in the order of enum class Step.
StepIndex(s) ==
    CASE s = StepClientNonce -> 0
      [] s = StepServerChallenge -> 1
      [] s = StepServerSignature -> 2
      [] OTHER -> 3

\* C25: on a newly constructed instance that was given a hash function
\* and credentials, in consecutive Proceed calls, for every sequence of
\* server messages: each call moves the step forward by one at most; only
\* the first two calls can return a message, every call from the third on
\* returns the empty string; after the third call the instance is at step
\* Done or faulted, and stays so.
C25_ExchangeBounded ==
    (mechanism = "Scram" /\ lastOp = "Proceed") =>
        /\ ~threw
        /\ StepIndex(step) - StepIndex(pre.step) \in {0, 1}
        /\ calls.made >= 3 => ret = <<>>
        /\ calls.made >= 3 => (step = StepDone \/ faulted)
        /\ calls.made >= 4 =>
              /\ (pre.step = StepDone \/ pre.faulted)
              /\ pre.step = StepDone => step = StepDone
              /\ pre.faulted => faulted

\* Four server messages were fed, the second accepted and answered, the
\* third the right verifier: the fourth found the instance at step Done,
\* succeeded, and got nothing.
C25_Witness ==
    /\ mechanism = "Scram"
    /\ lastOp = "Proceed"
    /\ calls.made = 4
    /\ pre.step = StepDone
    /\ step = StepDone
    /\ succeeded
    /\ ~faulted
    /\ serverSignature # <<>>
    /\ ReturnedEmpty

----------------------------------------------------------------------------
(* C26.  Scram: a fault changes the flag only.                             *)

\* C26: a Proceed at step ServerChallenge that faults returns the empty
\* string, publishes no diagnostic message and changes nothing but the
\* faulted flag: the step, succeeded, the retained server signature, the
\* nonce and the cached messages are as before, also when the pieces
\* before the offending one were valid r=, s= or i= attributes.
C26_FaultIsAtomic ==
    [][(/\ lastOp' = "Proceed"
        /\ step = StepServerChallenge
        /\ ~faulted
        /\ faulted') =>
          /\ ret' = <<>>
          /\ ~threw'
          /\ diag' = <<>>
          /\ UNCHANGED <<step, succeeded, serverSignature, clientNonce,
                         clientFirstMessage, clientFirstMessageBare,
                         encodedChannelBinding, username, normalizedPassword,
                         hashFunction, digestSize, hmac>>]_vars

\* The fault came with the fourth piece, a second r= attribute with a
\* foreign nonce, after an r=, an s= and an i= attribute that were valid.
C26_Witness ==
    /\ ProceededAt(StepServerChallenge)
    /\ lastCredentials.set
    /\ hashFunction # 0
    /\ Len(LastPieces) = 4
    /\ HasKey(LastPieces[1], KeyR)
    /\ IsPrefix(clientNonce, ValueOf(LastPieces[1]))
    /\ HasKey(LastPieces[2], KeyS)
    /\ Base64Decode(ValueOf(LastPieces[2])) # <<>>
    /\ HasKey(LastPieces[3], KeyI)
    /\ IsPositiveNumeral(ValueOf(LastPieces[3]))
    /\ IsForeignNonce(LastPieces[4])
    /\ faulted
    /\ step = StepServerChallenge
    /\ serverSignature = <<>>
    /\ ReturnedEmpty

----------------------------------------------------------------------------
(* C27.  Scram: the step is monotonic.                                     *)

\* C27: over any sequence of calls of SetHashFunction, SetCredentials,
\* GetInitialResponse, Proceed and Reset on one instance, the step never
\* moves backward in the order ClientNonce, ServerChallenge,
\* ServerSignature, Done, and no call but Proceed changes it.
C27_StepMonotonic ==
    [][/\ StepIndex(step') >= StepIndex(step)
       /\ lastOp' # "Proceed" => step' = step]_vars

\* After an exchange that ended, Reset and then SetCredentials were
\* called: the step is still Done.
C27_Witness ==
    /\ lastOp = "SetCredentials"
    /\ pre.step = StepDone
    /\ step = StepDone
    /\ ~succeeded
    /\ ~faulted
    /\ serverSignature # <<>>
    /\ lastCredentials.set

----------------------------------------------------------------------------
(* C28.  Scram: success implies completion.                                *)

\* C28: in every state reached, succeeded implies that the step is Done;
\* succeeded becomes true only in a Proceed made at step ServerSignature
\* (which the step reaches only through ClientNonce and a ServerChallenge
\* turn that did not fault) with the verifier of the retained server
\* signature as its message.
C28_SuccessImpliesDone ==
    [][/\ succeeded' => step' = StepDone
       /\ (succeeded' /\ ~succeeded) =>
             /\ lastOp' = "Proceed"
             /\ step = StepServerSignature
             /\ ~faulted
             /\ lastMsg' = <<118, 61>> \o Base64Encode(serverSignature)
             /\ serverSignature' = serverSignature]_vars

\* An instance that had succeeded was given new credentials: success is
\* still reported, at step Done.
C28_Witness ==
    /\ lastOp = "SetCredentials"
    /\ pre.succeeded
    /\ succeeded
    /\ step = StepDone
    /\ hashFunction # 0
    /\ serverSignature # <<>>

----------------------------------------------------------------------------
(* C29.  Scram: the outcome flags exclude each other.                      *)

\* C29: in every state reached by any sequence of calls, Succeeded() and
\* Faulted() are not both true; faulted implies that the step is
\* ServerChallenge.
C29_OutcomeFlagsExclusive ==
    /\ ~(succeeded /\ faulted)
    /\ faulted => step = StepServerChallenge

\* Proceed was called on a faulted instance that has a hash function and
\* credentials: it is still faulted, at step ServerChallenge, and has not
\* succeeded.
C29_Witness ==
    /\ lastOp = "Proceed"
    /\ pre.faulted
    /\ faulted
    /\ ~succeeded
    /\ step = StepServerChallenge
    /\ hashFunction # 0
    /\ lastCredentials.set
    /\ clientNonce # <<>>

----------------------------------------------------------------------------
(* C30.  Login: SetCredentials and the counter.                            *)

\* C30: SetCredentials, called between Proceed calls, replaces the stored
\* user name and password and leaves the challenge counter as it was:
\* after k earlier Proceed calls the next Proceed answers turn k + 1 with
\* the new credentials (the new user name when k = 0, the new password
\* when k = 1, the empty string when k >= 2), for every server message.
C30_SetCredentialsKeepsCounter ==
    [][(mechanism = "Login" /\ lastOp' = "SetCredentials") =>
          /\ login'.numChallenges = login.numChallenges
          /\ login'.username = lastCredentials'.authenticationIdentity
          /\ login'.password = lastCredentials'.credentials
          /\ \A message \in ChallengeTexts :
                LoginProceed(login', message).ret =
                    CASE calls.made = 0 ->
                            lastCredentials'.authenticationIdentity
                      [] calls.made = 1 -> lastCredentials'.credentials
                      [] OTHER -> <<>>]_vars

\* Credentials were set after two Proceed calls, and Proceed was called
\* again: it returned the empty string, the counter is three.
C30_Witness ==
    /\ mechanism = "Login"
    /\ lastOp = "Proceed"
    /\ calls.made = 3
    /\ calls.turn = 1
    /\ login.numChallenges = 3
    /\ login.username # <<>>
    /\ login.password # <<>>
    /\ login.password = lastCredentials.credentials
    /\ ret = <<>>

----------------------------------------------------------------------------
(* C31.  Plain: the sent flag latches.                                     *)

\* C31: once Proceed has been called on a Plain, before any SetCredentials
\* or after, the flag credentialsSent is set and no call clears it: every
\* later Proceed returns the empty string, whatever SetCredentials and
\* GetInitialResponse calls were made in between; GetInitialResponse still
\* returns the stored record, that of the latest SetCredentials, and
\* leaves the flag as it was.
C31_SentFlagLatches ==
    [][mechanism = "Plain" =>
          /\ plain.credentialsSent => plain'.credentialsSent
          /\ lastOp' = "Proceed" =>
                /\ plain'.credentialsSent
                /\ calls.made >= 1 => (plain.credentialsSent /\ ret' = <<>>)
          /\ lastOp' = "GetInitialResponse" =>
                /\ plain' = plain
                /\ ret' = plain.encodedCredentialsToSend
                /\ lastCredentials.set => ret' = PlainRecord
          /\ lastOp' = "SetCredentials" =>
                plain'.credentialsSent = plain.credentialsSent]_vars

\* Proceed was called, credentials were set after it, and Proceed was
\* called again: it returned the empty string, while the record is stored.
C31_Witness ==
    /\ mechanism = "Plain"
    /\ lastOp = "Proceed"
    /\ calls.made = 2
    /\ calls.turn = 1
    /\ lastCredentials.set
    /\ lastCredentials.credentials # <<>>
    /\ plain.encodedCredentialsToSend = PlainRecord
    /\ plain.credentialsSent
    /\ ret = <<>>

====
